---- MODULE Spec2Model ----
(***************************************************************************)
(* State-machine model of vscode-extension-rest-webview:                   *)
(*   - the shared CorrelationManager (utils/correlation.ts),               *)
(*   - the server-side response adapter VSCodeHttpResponse,                *)
(*   - VSCodeHttpTransportServer and VSCodeHttpClient on one webview.      *)
(* Envelope timestamps are left out of the envelopes (they are used for    *)
(* diagnostics only); the pending entry's timestamp is kept.               *)
(***************************************************************************)
EXTENDS Integers, Sequences, FiniteSets, TLC

\* ---------------------------------------------------------------- bounds
MaxAdds == 2          \* addPendingRequest calls in a run of the manager
MaxAdvances == 1      \* clock advances in a run
MaxChunks == 2        \* chunks buffered in a response adapter
MaxRequests == 2      \* envelopes the webview posts to the servers alone
MaxCallbacks == 2     \* listen/close calls given a callback, per server
MaxFetches == 1       \* fetch() calls in a run

\* ---------------------------------------------------- program constants
DefaultTimeout == 30000     \* CorrelationManager constructor default
DefaultMaxAge == 60000      \* cleanupExpiredRequests default

\* --------------------------------------------------------- input domains
CorrIds == {"a", "b"}                       \* correlation ids
Timeouts == {<<>>, <<0>>, <<1000>>}         \* timeout?: number (<<>> = undefined)
TimeSteps == {1000, 30000}                  \* how far the clock may jump
MaxAges == {0, 30000, DefaultMaxAge}        \* cleanupExpiredRequests argument
Statuses == {200, 404}                      \* statuses a peer answers with

NoTimer == 0
Regs == 1..MaxAdds

VARIABLES
  now,            \* Date.now()
  advances,       \* number of clock advances so far
  nextReg,        \* number of the next addPendingRequest call (names its callbacks)
  tickQueue,      \* process.nextTick queue: callbacks scheduled and not yet run
  lastOp,         \* the last operation called and what it returned
  cm,             \* a CorrelationManager driven directly (SpecCM)
  calls,          \* its callbacks: how often each ran, and with what
  responses,      \* the VSCodeHttpResponse adapters created so far
  posted,         \* every webview.postMessage call of the extension side
  toClients,      \* envelopes on their way to the webview
  toServers,      \* envelopes on their way to the extension
  servers,        \* the VSCodeHttpTransportServer objects
  registry,       \* webviewServerRegistry.get(webview), 0 when absent
  subscribers,    \* webview.onDidReceiveMessage listeners, in order
  dispatched,     \* every 'request' event emitted
  clients,        \* the VSCodeHttpClient objects
  primaryClient,  \* the module-level primaryClient, 0 when null
  listeners,      \* window 'message' listeners, in order
  fetches         \* the promises returned by fetch()

cmVars == <<cm, calls>>

resVars == <<responses, posted, toClients>>

serverVars == <<toServers, servers, registry, subscribers, dispatched>>

clientVars == <<clients, primaryClient, listeners, fetches>>

clockVars == <<now, advances>>

vars == <<now, advances, nextReg, tickQueue, lastOp, cm, calls, responses, posted,
          toClients, toServers, servers, registry, subscribers, dispatched, clients,
          primaryClient, listeners, fetches>>

\* ------------------------------------------------------------- envelopes
\* instanceId "" stands for an absent (or empty, equally falsy) instanceId;
\* body <<>> for an absent body.
RequestMsg(id, inst) ==
  [id |-> id, type |-> "request", status |-> 0, error |-> "", instanceId |-> inst,
   headers |-> {}, body |-> <<>>]

ResponseMsg(id, status, headers, body, inst) ==
  [id |-> id, type |-> "response", status |-> status, error |-> "", instanceId |-> inst,
   headers |-> headers, body |-> body]

ErrorMsg(id, text, status, inst) ==
  [id |-> id, type |-> "error", status |-> status, error |-> text, instanceId |-> inst,
   headers |-> {}, body |-> <<>>]

isRequestMessage(message) == message.type = "request"

isResponseMessage(message) == message.type = "response"

isErrorMessage(message) == message.type = "error"

\* ------------------------------------------------- the pending-request Map
\* A JavaScript Map keeps insertion order; set() on a present key keeps its place.
MapHas(m, id) == \E i \in 1..Len(m) : m[i].id = id

MapIndex(m, id) == CHOOSE i \in 1..Len(m) : m[i].id = id

MapGet(m, id) == m[MapIndex(m, id)]

MapSet(m, e) ==
  IF MapHas(m, e.id)
    THEN [m EXCEPT ![MapIndex(m, e.id)] = e]
    ELSE Append(m, e)

MapDelete(m, id) ==
  IF MapHas(m, id)
    THEN LET k == MapIndex(m, id)
         IN  SubSeq(m, 1, k - 1) \o SubSeq(m, k + 1, Len(m))
    ELSE m

MapKeys(m) == {m[i].id : i \in 1..Len(m)}

\* clearTimeout(handle): the timer with that handle, if still armed, is disarmed.
ClearTimeout(timers, handle) == {t \in timers : t.reg # handle}

\* ---------------------------------------------------- CorrelationManager
NewManager(defaultTimeout) ==
  [pendingRequests |-> <<>>, defaultTimeout |-> defaultTimeout,
   disposed |-> FALSE, timers |-> {}]

\* A callback to run: which registration's, which of its two, and the argument.
Callback(reg, kind, arg) == [reg |-> reg, kind |-> kind, arg |-> arg]

\* What an operation yields: the manager after it, the callbacks it invoked
\* within the call (sync), those it scheduled with process.nextTick (ticks),
\* and its return value.
Outcome(m, sync, ticks, ret) == [cm |-> m, sync |-> sync, ticks |-> ticks, ret |-> ret]

EffectiveTimeout(m, timeout) ==
  IF timeout = <<>> THEN m.defaultTimeout ELSE timeout[1]

\* addPendingRequest without its disposed check.
AddPendingRequestNoDisposedCheck(m, id, reg, timeout, t) ==
  LET timeoutMs == EffectiveTimeout(m, timeout)
      request == [id |-> id, reg |-> reg, timestamp |-> t,
                  timeout |-> IF timeoutMs > 0 THEN reg ELSE NoTimer]
      armed == IF timeoutMs > 0
                 THEN m.timers \cup {[reg |-> reg, id |-> id, deadline |-> t + timeoutMs]}
                 ELSE m.timers
  IN  Outcome([m EXCEPT !.pendingRequests = MapSet(@, request), !.timers = armed],
              <<>>, <<>>, TRUE)

addPendingRequest(m, id, reg, timeout, t) ==
  IF m.disposed
    THEN Outcome(m,
                 <<Callback(reg, "reject",
                            ErrorMsg(id, "Correlation manager has been disposed", 503, ""))>>,
                 <<>>, TRUE)
    ELSE LET timeoutMs == EffectiveTimeout(m, timeout)
             request == [id |-> id, reg |-> reg, timestamp |-> t,
                         timeout |-> IF timeoutMs > 0 THEN reg ELSE NoTimer]
             armed == IF timeoutMs > 0
                        THEN m.timers \cup
                               {[reg |-> reg, id |-> id, deadline |-> t + timeoutMs]}
                        ELSE m.timers
         IN  Outcome([m EXCEPT !.pendingRequests = MapSet(@, request), !.timers = armed],
                     <<>>, <<>>, TRUE)

\* clearRequest that cancels the timer and forgets pendingRequests.delete(id).
ClearRequestNoDelete(m, id) ==
  LET has == MapHas(m.pendingRequests, id)
      handle == IF has THEN MapGet(m.pendingRequests, id).timeout ELSE NoTimer
  IN  [m EXCEPT !.timers = IF handle # NoTimer THEN ClearTimeout(@, handle) ELSE @]

clearRequest(m, id) ==
  LET has == MapHas(m.pendingRequests, id)
      handle == IF has THEN MapGet(m.pendingRequests, id).timeout ELSE NoTimer
  IN  [m EXCEPT !.timers = IF handle # NoTimer THEN ClearTimeout(@, handle) ELSE @,
                !.pendingRequests = MapDelete(@, id)]

\* resolveRequest that forgets clearRequest(id).
ResolveRequestNoClear(m, id, response) ==
  IF m.disposed THEN Outcome(m, <<>>, <<>>, FALSE)
  ELSE IF ~MapHas(m.pendingRequests, id) THEN Outcome(m, <<>>, <<>>, FALSE)
  ELSE LET request == MapGet(m.pendingRequests, id)
       IN  Outcome(m, <<>>, <<Callback(request.reg, "resolve", response)>>, TRUE)

\* resolveRequest that calls request.resolve before it returns.
ResolveRequestSync(m, id, response) ==
  IF m.disposed THEN Outcome(m, <<>>, <<>>, FALSE)
  ELSE IF ~MapHas(m.pendingRequests, id) THEN Outcome(m, <<>>, <<>>, FALSE)
  ELSE LET request == MapGet(m.pendingRequests, id)
       IN  Outcome(clearRequest(m, id),
                   <<Callback(request.reg, "resolve", response)>>, <<>>, TRUE)

resolveRequest(m, id, response) ==
  IF m.disposed THEN Outcome(m, <<>>, <<>>, FALSE)
  ELSE IF ~MapHas(m.pendingRequests, id) THEN Outcome(m, <<>>, <<>>, FALSE)
  ELSE LET request == MapGet(m.pendingRequests, id)
       IN  Outcome(clearRequest(m, id), <<>>,
                   <<Callback(request.reg, "resolve", response)>>, TRUE)

rejectRequest(m, id, error) ==
  IF m.disposed THEN Outcome(m, <<>>, <<>>, FALSE)
  ELSE IF ~MapHas(m.pendingRequests, id) THEN Outcome(m, <<>>, <<>>, FALSE)
  ELSE LET request == MapGet(m.pendingRequests, id)
       IN  Outcome(clearRequest(m, id), <<>>,
                   <<Callback(request.reg, "reject", error)>>, TRUE)

\* A timer callback that lets the request lapse without rejecting it.
TimeoutFiresSilently(m, timer) ==
  Outcome([m EXCEPT !.timers = @ \ {timer}], <<>>, <<>>, FALSE)

\* The timer callback armed by addPendingRequest: the timer is spent, then
\* rejectRequest(id, 408 'Request timeout').
timeoutFires(m, timer) ==
  rejectRequest([m EXCEPT !.timers = @ \ {timer}], timer.id,
                ErrorMsg(timer.id, "Request timeout", 408, ""))

\* clearAllRequests that forgets clearTimeout(request.timeout).
ClearAllRequestsKeepTimers(m) ==
  IF m.disposed THEN Outcome(m, <<>>, <<>>, TRUE)
  ELSE LET copy == m.pendingRequests
       IN  Outcome([m EXCEPT !.disposed = TRUE, !.pendingRequests = <<>>],
                   <<>>,
                   [i \in 1..Len(copy) |->
                      Callback(copy[i].reg, "reject",
                               ErrorMsg(copy[Len(copy)].id, "Connection closed", 503, ""))],
                   TRUE)

\* clearAllRequests that neither marks the manager disposed nor empties the
\* table before the callbacks run.
ClearAllRequestsKeepEntries(m) ==
  LET copy == m.pendingRequests
      handles == {copy[i].timeout : i \in 1..Len(copy)} \ {NoTimer}
  IN  Outcome([m EXCEPT !.timers = {t \in @ : t.reg \notin handles}],
              <<>>,
              [i \in 1..Len(copy) |->
                 Callback(copy[i].reg, "reject",
                          ErrorMsg(copy[Len(copy)].id, "Connection closed", 503, ""))],
              TRUE)

\* One error object is shared by all the scheduled callbacks and its id is
\* overwritten on every iteration: when the callbacks run it holds the last id.
clearAllRequests(m) ==
  IF m.disposed THEN Outcome(m, <<>>, <<>>, TRUE)
  ELSE LET copy == m.pendingRequests
           handles == {copy[i].timeout : i \in 1..Len(copy)} \ {NoTimer}
       IN  Outcome([m EXCEPT !.disposed = TRUE,
                             !.pendingRequests = <<>>,
                             !.timers = {t \in @ : t.reg \notin handles}],
                   <<>>,
                   [i \in 1..Len(copy) |->
                      Callback(copy[i].reg, "reject",
                               ErrorMsg(copy[Len(copy)].id, "Connection closed", 503, ""))],
                   TRUE)

getPendingCount(m) == IF m.disposed THEN 0 ELSE Len(m.pendingRequests)

\* The first loop of cleanupExpiredRequests taking an age of maxAge as expired.
ExpiredIdsFromMaxAge(m, maxAge, t) ==
  SelectSeq([i \in 1..Len(m.pendingRequests) |-> m.pendingRequests[i]],
            LAMBDA e : t - e.timestamp >= maxAge)

\* The first loop of cleanupExpiredRequests: the entries older than maxAge.
ExpiredIds(m, maxAge, t) ==
  SelectSeq([i \in 1..Len(m.pendingRequests) |-> m.pendingRequests[i]],
            LAMBDA e : t - e.timestamp > maxAge)

RECURSIVE RejectExpired(_, _, _, _)
\* The second loop of cleanupExpiredRequests over expiredIds[k..]; ret counts.
RejectExpired(acc, expired, k, t) ==
  IF k > Len(expired) THEN acc
  ELSE LET id == expired[k].id
           r == rejectRequest(acc.cm, id, ErrorMsg(id, "Request expired", 408, ""))
       IN  RejectExpired(Outcome(r.cm, <<>>, acc.ticks \o r.ticks,
                                 IF r.ret THEN acc.ret + 1 ELSE acc.ret),
                         expired, k + 1, t)

cleanupExpiredRequests(m, maxAge, t) ==
  IF m.disposed THEN Outcome(m, <<>>, <<>>, 0)
  ELSE RejectExpired(Outcome(m, <<>>, <<>>, 0), ExpiredIds(m, maxAge, t), 1, t)

\* --------------------------------------------- the manager driven directly
NoCalls == [resolve |-> 0, reject |-> 0, arg |-> <<>>]

\* Running a callback of a test double (jest.fn): it is counted, its argument kept.
Invoke(c, cb) ==
  [c EXCEPT ![cb.reg] = [resolve |-> @.resolve + (IF cb.kind = "resolve" THEN 1 ELSE 0),
                         reject |-> @.reject + (IF cb.kind = "reject" THEN 1 ELSE 0),
                         arg |-> <<cb.arg>>]]

RECURSIVE InvokeAll(_, _)
InvokeAll(c, cbs) ==
  IF cbs = <<>> THEN c ELSE InvokeAll(Invoke(c, Head(cbs)), Tail(cbs))

Op(name, id, reg, ret) == [op |-> name, id |-> id, reg |-> reg, ret |-> ret]

\* Apply an operation's outcome to the state.
Apply(r, name, id, reg) ==
  /\ cm' = r.cm
  /\ calls' = InvokeAll(calls, r.sync)
  /\ tickQueue' = tickQueue \o r.ticks
  /\ lastOp' = Op(name, id, reg, r.ret)

\* ------------------------------------------- VSCodeHttpResponse (server side)
ServerIds == {1, 2}
ClientIds == {1, 2}

HeaderNames == {"Content-Type", "content-type"}
HeaderValues == {"text/plain"}
\* The headers argument of writeHead: absent, or one header under either spelling.
WriteHeadHeaders ==
  {{}, {<<"Content-Type", "application/json">>}, {<<"content-type", "application/json">>}}
JsonChunk == "{\"a\":1}"
Chunks == {JsonChunk, "text"}
NoChunk == ""                     \* end() called without a chunk

\* name.toLowerCase()
toLowerCase(name) == IF name = "Content-Type" THEN "content-type" ELSE name

\* this.headers: the set of <<name, value>> pairs, one per name.
HeaderSet(headers, name, value) ==
  {h \in headers : h[1] # name} \cup {<<name, value>>}

HeaderDelete(headers, name) == {h \in headers : h[1] # name}

NewResponse(correlationId, instanceId, owner) ==
  [statusCode |-> 200, headers |-> {}, headersSent |-> FALSE, finished |-> FALSE,
   body |-> <<>>, correlationId |-> correlationId, disposed |-> FALSE,
   responseSent |-> FALSE, instanceId |-> instanceId,
   owner |-> owner,             \* the server whose 'finish' listener is attached
   finishListener |-> owner # 0]

\* setHeader that does not look at _disposed.
SetHeaderWhenDisposed(res, name, value) ==
  IF res.headersSent THEN res
  ELSE [res EXCEPT !.headers = HeaderSet(@, toLowerCase(name), value)]

setHeader(res, name, value) ==
  IF res.headersSent \/ res.disposed THEN res
  ELSE [res EXCEPT !.headers = HeaderSet(@, toLowerCase(name), value)]

removeHeader(res, name) ==
  IF ~res.disposed THEN [res EXCEPT !.headers = HeaderDelete(@, toLowerCase(name))]
  ELSE res

\* Object.assign(this.headers, headers): the names are taken as given.
ObjectAssign(headers, more) ==
  {h \in headers : \A g \in more : g[1] # h[1]} \cup more

\* writeHead that only looks at _disposed.
WriteHeadAfterHeadersSent(res, statusCode, headers) ==
  IF res.disposed THEN res
  ELSE [res EXCEPT !.statusCode = statusCode,
                   !.headers = ObjectAssign(@, headers),
                   !.headersSent = TRUE]

\* writeHead(statusCode, statusMessage, headers); headers = {} when not given.
writeHead(res, statusCode, headers) ==
  IF res.headersSent \/ res.disposed \/ res.responseSent THEN res
  ELSE [res EXCEPT !.statusCode = statusCode,
                   !.headers = ObjectAssign(@, headers),
                   !.headersSent = TRUE]

\* write returns [res, ret].
write(res, chunk) ==
  IF res.finished \/ res.disposed \/ res.responseSent THEN [res |-> res, ret |-> FALSE]
  ELSE [res |-> [res EXCEPT !.headersSent = TRUE, !.body = Append(@, chunk)],
        ret |-> TRUE]

\* _combineBody: the chunks joined; parsed as JSON when the text starts with
\* '{' or '[' and parses. With the chunks of Chunks the joined text parses
\* exactly when it is the single chunk JsonChunk.
combineBody(body) ==
  IF body = <<>> THEN <<>>
  ELSE IF body = <<JsonChunk>> THEN <<"json", body>>
  ELSE <<"string", body>>

\* end() without its guard against a second call.
EndNoGuard(res, chunk) ==
  LET body == IF chunk # NoChunk THEN Append(res.body, chunk) ELSE res.body
  IN  [res |-> [res EXCEPT !.responseSent = TRUE, !.body = body, !.headersSent = TRUE,
                           !.finished = TRUE, !.finishListener = FALSE],
       finish |-> res.finishListener,
       post |-> <<ResponseMsg(res.correlationId, res.statusCode, res.headers,
                              combineBody(body), res.instanceId)>>,
       ret |-> TRUE]

\* end() that forgets to mark the headers as sent.
EndWithoutHeadersSent(res, chunk) ==
  IF res.finished \/ res.disposed \/ res.responseSent
    THEN [res |-> res, finish |-> FALSE, post |-> <<>>, ret |-> FALSE]
    ELSE LET body == IF chunk # NoChunk THEN Append(res.body, chunk) ELSE res.body
         IN  [res |-> [res EXCEPT !.responseSent = TRUE, !.body = body, !.finished = TRUE,
                                  !.finishListener = FALSE],
              finish |-> res.finishListener,
              post |-> <<ResponseMsg(res.correlationId, res.statusCode, res.headers,
                                     combineBody(body), res.instanceId)>>,
              ret |-> TRUE]

\* end yields the adapter after the call, whether the server's once('finish')
\* listener ran, the envelope handed to webview.postMessage (if any), and
\* ret: whether the call got past its guard.
end(res, chunk) ==
  IF res.finished \/ res.disposed \/ res.responseSent
    THEN [res |-> res, finish |-> FALSE, post |-> <<>>, ret |-> FALSE]
    ELSE LET body == IF chunk # NoChunk THEN Append(res.body, chunk) ELSE res.body
         IN  [res |-> [res EXCEPT !.responseSent = TRUE, !.body = body,
                                  !.headersSent = TRUE, !.finished = TRUE,
                                  !.finishListener = FALSE],
              finish |-> res.finishListener,
              post |-> <<ResponseMsg(res.correlationId, res.statusCode, res.headers,
                                     combineBody(body), res.instanceId)>>,
              ret |-> TRUE]

dispose(res) ==
  IF res.disposed THEN res
  ELSE [res EXCEPT !.disposed = TRUE, !.finished = TRUE, !.finishListener = FALSE]

\* webview.postMessage(msg) by `by` (a server, or an adapter of it); ok is
\* whether the webview took it (FALSE: it threw, the webview is gone).
Post(by, msg, ok) == [by |-> by, msg |-> msg, ok |-> ok]

RECURSIVE Delivered(_)
\* The envelopes of a sequence of postMessage calls that reached the channel.
Delivered(posts) ==
  IF posts = <<>> THEN <<>>
  ELSE (IF Head(posts).ok THEN <<Head(posts).msg>> ELSE <<>>) \o Delivered(Tail(posts))

\* ----------------------------------------------- objects not yet constructed
NoServer ==
  [constructed |-> FALSE, instanceId |-> "", listening |-> FALSE, isListening |-> FALSE,
   disposed |-> FALSE, pendingResponses |-> {}, messageHandlerLock |-> FALSE,
   requestHandler |-> FALSE,
   closeListeners |-> 0,   \* listeners registered on the 'close' event
   closeEvents |-> 0,      \* how often a 'close' listener has been notified
   options |-> "",     \* options.instanceId as given to the constructor ("" = absent)
   callbacks |-> 0]    \* listen/close callbacks handed to process.nextTick so far

NoClient ==
  [constructed |-> FALSE, instanceId |-> "", disposed |-> FALSE,
   cm |-> NewManager(DefaultTimeout), pendingRequests |-> {}]

NoExtension ==
  /\ toServers = <<>>
  /\ servers = [s \in ServerIds |-> NoServer]
  /\ registry = 0
  /\ subscribers = <<>>
  /\ dispatched = <<>>

NoWebview ==
  /\ clients = [c \in ClientIds |-> NoClient]
  /\ primaryClient = 0
  /\ listeners = <<>>
  /\ fetches = <<>>

NoAdapters == responses = <<>> /\ posted = <<>> /\ toClients = <<>>

NoManager == cm = NewManager(DefaultTimeout) /\ calls = [r \in Regs |-> NoCalls]

CMInit ==
  /\ now = 0
  /\ advances = 0
  /\ cm = NewManager(DefaultTimeout)
  /\ nextReg = 1
  /\ tickQueue = <<>>
  /\ calls = [r \in Regs |-> NoCalls]
  /\ lastOp = Op("new", "", 0, TRUE)
  /\ NoAdapters
  /\ NoExtension
  /\ NoWebview

CMAdd(id, timeout) ==
  /\ nextReg <= MaxAdds
  /\ Apply(addPendingRequest(cm, id, nextReg, timeout, now), "add", id, nextReg)
  /\ nextReg' = nextReg + 1
  /\ UNCHANGED <<clockVars, resVars, serverVars, clientVars>>

CMResolve(id, status) ==
  /\ Apply(resolveRequest(cm, id, ResponseMsg(id, status, {}, <<>>, "")), "resolve", id, 0)
  /\ UNCHANGED <<clockVars, nextReg, resVars, serverVars, clientVars>>

CMReject(id) ==
  /\ Apply(rejectRequest(cm, id, ErrorMsg(id, "Test error", 500, "")), "reject", id, 0)
  /\ UNCHANGED <<clockVars, nextReg, resVars, serverVars, clientVars>>

\* A timer is a macrotask: it runs after the nextTick queue has drained, and
\* not before its deadline.
CMTimeout(timer) ==
  /\ timer \in cm.timers
  /\ now >= timer.deadline
  /\ tickQueue = <<>>
  /\ Apply(timeoutFires(cm, timer), "timeout", timer.id, timer.reg)
  /\ UNCHANGED <<clockVars, nextReg, resVars, serverVars, clientVars>>

CMCleanup(maxAge) ==
  /\ Apply(cleanupExpiredRequests(cm, maxAge, now), "cleanup", "", maxAge)
  /\ UNCHANGED <<clockVars, nextReg, resVars, serverVars, clientVars>>

CMClearAll ==
  /\ Apply(clearAllRequests(cm), "clearAll", "", 0)
  /\ UNCHANGED <<clockVars, nextReg, resVars, serverVars, clientVars>>

CMRunTick ==
  /\ tickQueue # <<>>
  /\ calls' = Invoke(calls, Head(tickQueue))
  /\ tickQueue' = Tail(tickQueue)
  /\ lastOp' = Op("tick", "", 0, TRUE)
  /\ UNCHANGED <<clockVars, cm, nextReg, resVars, serverVars, clientVars>>

CMAdvance(step) ==
  /\ advances < MaxAdvances
  /\ now' = now + step
  /\ advances' = advances + 1
  /\ lastOp' = Op("advance", "", 0, TRUE)
  /\ UNCHANGED <<cm, nextReg, tickQueue, calls, resVars, serverVars, clientVars>>

CMNext ==
  \/ \E id \in CorrIds, timeout \in Timeouts : CMAdd(id, timeout)
  \/ \E id \in CorrIds : CMResolve(id, 200)
  \/ \E id \in CorrIds : CMReject(id)
  \/ \E timer \in cm.timers : CMTimeout(timer)
  \/ \E maxAge \in MaxAges : CMCleanup(maxAge)
  \/ CMClearAll
  \/ CMRunTick
  \/ \E step \in TimeSteps : CMAdvance(step)

SpecCM == CMInit /\ [][CMNext]_vars

\* ------------------------------------------------ one adapter driven directly
ResInit ==
  /\ now = 0
  /\ advances = 0
  /\ nextReg = 1
  /\ tickQueue = <<>>
  /\ lastOp = Op("new", "", 0, TRUE)
  /\ NoManager
  /\ responses = <<NewResponse("a", "server_1", 0)>>
  /\ posted = <<>>
  /\ toClients = <<>>
  /\ NoExtension
  /\ NoWebview

ResFrame == UNCHANGED <<clockVars, nextReg, tickQueue, cmVars, serverVars, clientVars>>

ResSetHeader(name, value) ==
  /\ responses' = [responses EXCEPT ![1] = setHeader(@, name, value)]
  /\ lastOp' = Op("setHeader", responses[1].correlationId, 1, TRUE)
  /\ UNCHANGED <<posted, toClients>>
  /\ ResFrame

ResRemoveHeader(name) ==
  /\ responses' = [responses EXCEPT ![1] = removeHeader(@, name)]
  /\ lastOp' = Op("removeHeader", responses[1].correlationId, 1, TRUE)
  /\ UNCHANGED <<posted, toClients>>
  /\ ResFrame

\* lastOp of a writeHead: the name of the header it was given ("" = none) and
\* the status code.
ResWriteHead(statusCode, headers) ==
  /\ responses' = [responses EXCEPT ![1] = writeHead(@, statusCode, headers)]
  /\ lastOp' = Op("writeHead", IF headers = {} THEN "" ELSE (CHOOSE h \in headers : TRUE)[1],
                  statusCode, TRUE)
  /\ UNCHANGED <<posted, toClients>>
  /\ ResFrame

ResWrite(chunk) ==
  /\ Len(responses[1].body) < MaxChunks \/ ~write(responses[1], chunk).ret
  /\ LET w == write(responses[1], chunk)
     IN  /\ responses' = [responses EXCEPT ![1] = w.res]
         /\ lastOp' = Op("write", responses[1].correlationId, 1, w.ret)
  /\ UNCHANGED <<posted, toClients>>
  /\ ResFrame

ResEnd(chunk, ok) ==
  /\ LET e == end(responses[1], chunk)
         posts == [i \in 1..Len(e.post) |-> Post(0, e.post[i], ok)]
     IN  /\ responses' = [responses EXCEPT ![1] = e.res]
         /\ posted' = posted \o posts
         /\ toClients' = toClients \o Delivered(posts)
         /\ lastOp' = Op("end", responses[1].correlationId, 1, e.ret)
  /\ ResFrame

ResDispose ==
  /\ responses' = [responses EXCEPT ![1] = dispose(@)]
  /\ lastOp' = Op("dispose", responses[1].correlationId, 1, TRUE)
  /\ UNCHANGED <<posted, toClients>>
  /\ ResFrame

ResNext ==
  \/ \E name \in HeaderNames, value \in HeaderValues : ResSetHeader(name, value)
  \/ \E name \in HeaderNames : ResRemoveHeader(name)
  \/ \E statusCode \in Statuses, headers \in WriteHeadHeaders :
       ResWriteHead(statusCode, headers)
  \/ \E chunk \in Chunks : ResWrite(chunk)
  \/ \E chunk \in Chunks \cup {NoChunk}, ok \in BOOLEAN : ResEnd(chunk, ok)
  \/ ResDispose

SpecRes == ResInit /\ [][ResNext]_vars

\* ------------------------------------------------ VSCodeHttpTransportServer
\* `server_${Date.now()}_${random}`: one distinct generated id per server.
ServerInstanceId(s) == <<"server_1", "server_2", "server_3">>[s]

\* What the 'request' listener does before emit() returns: nothing yet (an
\* async handler that answers later, or no listener), res.end(), throw, or
\* res.end() followed by a throw.
Behaviours == {"defer", "end", "throw", "endThrow"}

\* The extension-side state a message handler works on.
Extension(sv, rs, ps, tc, ds) ==
  [servers |-> sv, responses |-> rs, posted |-> ps, toClients |-> tc, dispatched |-> ds]

\* webview.postMessage inside try/catch: logged, and on the channel unless it threw.
PostMessage(ext, by, msg, ok) ==
  [ext EXCEPT !.posted = Append(@, Post(by, msg, ok)),
              !.toClients = IF ok THEN Append(@, msg) ELSE @]

sendErrorResponse(ext, s, messageId, text, ok) ==
  IF ext.servers[s].disposed THEN ext
  ELSE PostMessage(ext, s, ErrorMsg(messageId, text, 500, ext.servers[s].instanceId), ok)

\* A VSCodeHttpRequest whose constructor emits 'data' and 'end' itself, and
\* schedules the callback as well.
NewRequestEmitsAtOnce(message) ==
  [hasBody |-> message.body # <<>>,
   emitted |-> (IF message.body # <<>> THEN <<"data">> ELSE <<>>) \o <<"end">>,
   tick |-> TRUE]

\* new VSCodeHttpRequest(message): what the adapter has emitted so far, and
\* whether the callback it handed to process.nextTick is still to run.
NewRequest(message) ==
  [hasBody |-> message.body # <<>>, emitted |-> <<>>, tick |-> TRUE]

\* The callback of the constructor's process.nextTick.
emitBody(req) ==
  [req EXCEPT !.emitted = @ \o (IF req.hasBody THEN <<"data">> ELSE <<>>) \o <<"end">>,
              !.tick = FALSE]

\* res.end() whose 'finish' event is emitted only after postMessage returned.
EndResponseFinishAfterSend(ext, r, chunk, ok) ==
  LET e == end(ext.responses[r], chunk)
      owner == ext.responses[r].owner
      ext1 == [ext EXCEPT !.responses[r] = e.res]
      ext2 == IF e.finish /\ ok
                THEN [ext1 EXCEPT !.servers[owner].pendingResponses = @ \ {r}]
                ELSE ext1
  IN  IF e.post = <<>> THEN ext2 ELSE PostMessage(ext2, owner, e.post[1], ok)

\* res.end() on adapter r, with the server's once('finish') listener.
EndResponse(ext, r, chunk, ok) ==
  LET e == end(ext.responses[r], chunk)
      owner == ext.responses[r].owner
      ext1 == [ext EXCEPT !.responses[r] = e.res]
      ext2 == IF e.finish
                THEN [ext1 EXCEPT !.servers[owner].pendingResponses = @ \ {r}]
                ELSE ext1
  IN  IF e.post = <<>> THEN ext2 ELSE PostMessage(ext2, owner, e.post[1], ok)

\* _handleMessage without catch and finally: a throwing handler is answered by
\* nothing and leaves the lock taken.
DispatchNoCatch(ext, s, message, behaviour, ok) ==
  LET r == Len(ext.responses) + 1
      res == NewResponse(message.id, ext.servers[s].instanceId, s)
      ext1 == [ext EXCEPT !.responses = Append(@, res),
                          !.servers[s].pendingResponses = @ \cup {r},
                          !.dispatched = Append(@, [server |-> s, id |-> message.id,
                                                    instanceId |-> message.instanceId,
                                                    response |-> r,
                                                    behaviour |-> behaviour,
                                                    request |-> NewRequest(message)])]
      ext2 == IF behaviour \in {"end", "endThrow"}
                THEN EndResponse(ext1, r, NoChunk, ok)
                ELSE ext1
  IN  IF behaviour \in {"throw", "endThrow"}
        THEN [ext2 EXCEPT !.servers[s].messageHandlerLock = TRUE]
        ELSE ext2

\* The try block of _handleMessage once the message is accepted.
Dispatch(ext, s, message, behaviour, ok) ==
  LET r == Len(ext.responses) + 1
      res == NewResponse(message.id, ext.servers[s].instanceId, s)
      ext1 == [ext EXCEPT !.responses = Append(@, res),
                          !.servers[s].pendingResponses = @ \cup {r},
                          !.dispatched = Append(@, [server |-> s, id |-> message.id,
                                                    instanceId |-> message.instanceId,
                                                    response |-> r,
                                                    behaviour |-> behaviour,
                                                    request |-> NewRequest(message)])]
      ext2 == IF behaviour \in {"end", "endThrow"}
                THEN EndResponse(ext1, r, NoChunk, ok)
                ELSE ext1
  IN  IF behaviour \in {"throw", "endThrow"}
        THEN sendErrorResponse(ext2, s, message.id, "handler failed", ok)
        ELSE ext2

\* The guards of _handleMessage without the reentrancy lock.
AcceptsUnlocked(sv, reg, s, message) ==
  /\ ~(sv[s].disposed \/ ~sv[s].isListening)
  /\ isRequestMessage(message)
  /\ ~(reg # s /\ reg # 0 /\ ~sv[reg].disposed)

Accepts(sv, reg, s, message) ==
  /\ ~(sv[s].messageHandlerLock \/ sv[s].disposed \/ ~sv[s].isListening)
  /\ isRequestMessage(message)
  /\ ~(reg # s /\ reg # 0 /\ ~sv[reg].disposed)

\* _handleMessage; the lock is taken and released within the call.
handleMessage(ext, reg, s, message, behaviour, ok) ==
  IF Accepts(ext.servers, reg, s, message)
    THEN Dispatch(ext, s, message, behaviour, ok)
    ELSE ext

RECURSIVE FireServers(_, _, _, _, _, _)
\* The webview's onDidReceiveMessage event: every listener in turn.
FireServers(ext, reg, subs, message, behaviours, ok) ==
  IF subs = <<>> THEN ext
  ELSE FireServers(handleMessage(ext, reg, Head(subs), message, behaviours[Head(subs)], ok),
                   reg, Tail(subs), message, behaviours, ok)

\* _handleMessage of server s when its 'request' listener, before it returns,
\* makes the channel fire the envelope inner at every listener: the lock is
\* held from line 424 to the finally block.
handleMessageReentered(ext, reg, subs, s, message, inner, behaviours, ok) ==
  IF ~Accepts(ext.servers, reg, s, message) THEN ext
  ELSE LET locked == [ext EXCEPT !.servers[s].messageHandlerLock = TRUE]
           emitted == Dispatch(locked, s, message, "defer", ok)
           fired == FireServers(emitted, reg, subs, inner, behaviours, ok)
       IN  [fired EXCEPT !.servers[s].messageHandlerLock = FALSE]

RECURSIVE FireReentering(_, _, _, _, _, _, _, _, _)
\* onDidReceiveMessage fired with message; the listener of server h fires inner.
FireReentering(ext, reg, all, subs, h, message, inner, behaviours, ok) ==
  IF subs = <<>> THEN ext
  ELSE LET s == Head(subs)
           handled == IF s = h
                        THEN handleMessageReentered(ext, reg, all, s, message, inner,
                                                    behaviours, ok)
                        ELSE handleMessage(ext, reg, s, message, behaviours[s], ok)
       IN  FireReentering(handled, reg, all, Tail(subs), h, message, inner, behaviours, ok)

Remove(seq, x) == SelectSeq(seq, LAMBDA y : y # x)

\* A close() that leaves the adapters in flight as they are.
DisposeNone(rs, pending) == rs

RECURSIVE DisposeAll(_, _)
DisposeAll(rs, pending) ==
  IF pending = {} THEN rs
  ELSE LET r == CHOOSE x \in pending : TRUE
       IN  DisposeAll([rs EXCEPT ![r] = dispose(@)], pending \ {r})

ServerFrame == UNCHANGED <<clockVars, nextReg, tickQueue, cmVars, clientVars>>

SysFrameOfServer == ServerFrame /\ UNCHANGED lastOp

SetExtension(ext) ==
  /\ servers' = ext.servers
  /\ responses' = ext.responses
  /\ posted' = ext.posted
  /\ toClients' = ext.toClients
  /\ dispatched' = ext.dispatched

\* process.nextTick(callback), when listen/close was given one.
WithCallback(server, callback) ==
  IF callback THEN [server EXCEPT !.callbacks = @ + 1] ELSE server

\* new VSCodeHttpTransportServer(webview, {instanceId}).
Construct(s, instanceId) ==
  /\ ~servers[s].constructed
  /\ \A t \in DOMAIN servers : t < s => servers[t].constructed
  /\ servers' = [servers EXCEPT ![s] = [NoServer EXCEPT !.constructed = TRUE,
                                                        !.options = instanceId,
                                                        !.instanceId = ServerInstanceId(s)]]
  /\ registry' = s
  /\ UNCHANGED <<resVars, toServers, subscribers, dispatched>>
  /\ ServerFrame

getInstanceId(s) == servers[s].instanceId

\* listen() that forgets the server may be closed.
ListenReopens(s, callback) ==
  /\ servers[s].constructed
  /\ IF servers[s].isListening
       THEN /\ servers' = [servers EXCEPT ![s] = WithCallback(@, callback)]
            /\ UNCHANGED subscribers
       ELSE /\ servers' = [servers EXCEPT
                             ![s] = WithCallback([@ EXCEPT !.isListening = TRUE], callback)]
            /\ subscribers' = Append(subscribers, s)
  /\ UNCHANGED <<resVars, toServers, registry, dispatched>>
  /\ ServerFrame

\* listen() that subscribes whenever the server is not closed.
ListenResubscribes(s, callback) ==
  /\ servers[s].constructed
  /\ IF servers[s].disposed
       THEN /\ servers' = [servers EXCEPT ![s] = WithCallback(@, callback)]
            /\ UNCHANGED subscribers
       ELSE /\ servers' = [servers EXCEPT
                             ![s] = WithCallback([@ EXCEPT !.isListening = TRUE], callback)]
            /\ subscribers' = Append(subscribers, s)
  /\ UNCHANGED <<resVars, toServers, registry, dispatched>>
  /\ ServerFrame

\* listen(port, hostname, backlog, callback).
Listen(s, callback) ==
  /\ servers[s].constructed
  /\ IF servers[s].isListening \/ servers[s].disposed
       THEN /\ servers' = [servers EXCEPT ![s] = WithCallback(@, callback)]
            /\ UNCHANGED subscribers
       ELSE /\ servers' = [servers EXCEPT
                             ![s] = WithCallback([@ EXCEPT !.isListening = TRUE], callback)]
            /\ subscribers' = Append(subscribers, s)
  /\ UNCHANGED <<resVars, toServers, registry, dispatched>>
  /\ ServerFrame

\* EventEmitter.removeAllListeners() and emit('close') on a server.
removeAllListeners(server) ==
  [server EXCEPT !.closeListeners = 0, !.requestHandler = FALSE]

emitClose(server) == [server EXCEPT !.closeEvents = @ + server.closeListeners]

\* close(callback).
Close(s, callback) ==
  /\ servers[s].constructed
  /\ IF ~servers[s].isListening \/ servers[s].disposed
       THEN /\ servers' = [servers EXCEPT ![s] = WithCallback(@, callback)]
            /\ UNCHANGED <<subscribers, registry, responses>>
       ELSE /\ servers' = [servers EXCEPT
                             ![s] = WithCallback(
                                      emitClose(removeAllListeners(
                                        [@ EXCEPT !.isListening = FALSE,
                                                  !.disposed = TRUE,
                                                  !.pendingResponses = {}])),
                                      callback)]
            /\ responses' = DisposeAll(responses, servers[s].pendingResponses)
            /\ subscribers' = Remove(subscribers, s)
            /\ registry' = IF registry = s THEN 0 ELSE registry
  /\ UNCHANGED <<posted, toClients, toServers, dispatched>>
  /\ ServerFrame

\* The host delivers the next envelope from the webview to the extension.
Deliver(behaviours, ok) ==
  /\ toServers # <<>>
  /\ \A s \in DOMAIN servers :
       ~Accepts(servers, registry, s, Head(toServers)) \/ s \notin {subscribers[i] : i \in 1..Len(subscribers)}
         => behaviours[s] = "defer"
  /\ SetExtension(FireServers(Extension(servers, responses, posted, toClients, dispatched),
                              registry, subscribers, Head(toServers), behaviours, ok))
  /\ toServers' = Tail(toServers)
  /\ UNCHANGED <<registry, subscribers>>
  /\ ServerFrame

\* A handler that answers after emit() returned: res.end().
End(r, ok) ==
  /\ r \in 1..Len(responses)
  /\ SetExtension(EndResponse(Extension(servers, responses, posted, toClients, dispatched),
                              r, NoChunk, ok))
  /\ UNCHANGED <<toServers, registry, subscribers>>
  /\ ServerFrame

\* The host delivers the next envelope, and the 'request' listener of server h
\* makes the channel deliver the one after it before returning.
DeliverReentered(h, behaviours, ok) ==
  /\ Len(toServers) >= 2
  /\ \E i \in 1..Len(subscribers) : subscribers[i] = h
  /\ Accepts(servers, registry, h, Head(toServers))
  /\ SetExtension(FireReentering(Extension(servers, responses, posted, toClients, dispatched),
                                 registry, subscribers, subscribers, h,
                                 toServers[1], toServers[2], behaviours, ok))
  /\ toServers' = Tail(Tail(toServers))
  /\ UNCHANGED <<registry, subscribers>>
  /\ ServerFrame

\* The event loop runs the nextTick callback of the oldest request adapter
\* that still has one.
RequestTick(d) ==
  /\ d \in 1..Len(dispatched)
  /\ dispatched[d].request.tick
  /\ \A e \in 1..(d - 1) : ~dispatched[e].request.tick
  /\ dispatched' = [dispatched EXCEPT ![d].request = emitBody(@)]
  /\ UNCHANGED <<resVars, servers, toServers, registry, subscribers>>
  /\ ServerFrame

ServerNew(s) == Construct(s, "") /\ UNCHANGED lastOp

ServerListen(s) == Listen(s, FALSE) /\ UNCHANGED lastOp

ServerClose(s) == Close(s, FALSE) /\ UNCHANGED lastOp

ServerDeliver(behaviours, ok) == Deliver(behaviours, ok) /\ UNCHANGED lastOp

HandlerEnd(r, ok) == End(r, ok) /\ UNCHANGED lastOp

\* ---------------------------------------------------------- VSCodeHttpClient
\* `client_${Date.now()}_${random}`: one distinct generated id per client.
GeneratedClientId(c) == <<"client_1", "client_2">>[c]

\* options.instanceId: absent, or the id of a server handed to the webview.
ClientInstanceOptions == {"", "server_1"}

\* options.timeout of a fetch; the clock of the whole system jumps by as much.
FetchTimeouts == {<<1000>>}

\* generateCorrelationId(): a fresh id per fetch.
FetchId(reg) == <<"a", "b", "c", "d">>[reg]

Fetch(c, id, timeout, state, status, error) ==
  [client |-> c, id |-> id, timeout |-> timeout, state |-> state, status |-> status,
   error |-> error]

\* A promise settles once; later resolve/reject calls do nothing.
Settle(f, state, status, error) ==
  IF f.state = "pending" THEN [f EXCEPT !.state = state, !.status = status, !.error = error]
  ELSE f

\* The webview-side state a message handler works on.
Webview(cs, tq) == [clients |-> cs, tickQueue |-> tq]

ApplyToClient(web, c, outcome) ==
  [web EXCEPT !.clients[c].cm = outcome.cm, !.tickQueue = @ \o outcome.ticks]

\* VSCodeHttpClient._handleMessage without the instance filter.
ClientHandleMessageNoFilter(web, primary, c, message) ==
  IF web.clients[c].disposed THEN web
  ELSE IF isResponseMessage(message)
    THEN ApplyToClient(web, c, resolveRequest(web.clients[c].cm, message.id, message))
  ELSE IF isErrorMessage(message)
    THEN ApplyToClient(web, c, rejectRequest(web.clients[c].cm, message.id, message))
  ELSE web

clientHandleMessage(web, primary, c, message) ==
  IF web.clients[c].disposed THEN web
  ELSE IF message.instanceId # "" /\ message.instanceId # web.clients[c].instanceId THEN web
  ELSE IF message.instanceId = "" /\ primary # c /\ primary # 0
          /\ ~web.clients[primary].disposed THEN web
  ELSE IF isResponseMessage(message)
    THEN ApplyToClient(web, c, resolveRequest(web.clients[c].cm, message.id, message))
  ELSE IF isErrorMessage(message)
    THEN ApplyToClient(web, c, rejectRequest(web.clients[c].cm, message.id, message))
  ELSE web

RECURSIVE FireClients(_, _, _, _)
\* The window 'message' event: every listener in turn.
FireClients(web, primary, ls, message) ==
  IF ls = <<>> THEN web
  ELSE FireClients(IF web.clients[Head(ls)].disposed THEN web
                   ELSE clientHandleMessage(web, primary, Head(ls), message),
                   primary, Tail(ls), message)

SysFrameOfClient ==
  UNCHANGED <<lastOp, cmVars, resVars, servers, registry, subscribers, dispatched>>

ClientNew(c, instanceId) ==
  /\ ~clients[c].constructed
  /\ \A d \in ClientIds : d < c => clients[d].constructed
  /\ clients' = [clients EXCEPT ![c] =
                   [NoClient EXCEPT !.constructed = TRUE,
                                    !.instanceId = IF instanceId # "" THEN instanceId
                                                   ELSE GeneratedClientId(c)]]
  /\ primaryClient' = IF primaryClient = 0 \/ clients[primaryClient].disposed
                        THEN c ELSE primaryClient
  /\ listeners' = Append(listeners, c)
  /\ UNCHANGED <<clockVars, nextReg, tickQueue, toServers, fetches>>
  /\ SysFrameOfClient

\* fetch(): ok is whether vscode.postMessage took the envelope.
ClientFetch(c, timeout, ok) ==
  /\ clients[c].constructed
  /\ nextReg <= MaxFetches
  /\ nextReg' = nextReg + 1
  /\ LET id == FetchId(nextReg)
     IN  IF clients[c].disposed
           THEN /\ fetches' = Append(fetches, Fetch(c, id, timeout, "rejected", 0,
                                                    "HTTP client has been disposed"))
                /\ UNCHANGED <<clients, tickQueue, toServers>>
           ELSE LET added == addPendingRequest(clients[c].cm, id, nextReg, timeout, now)
                    failed == rejectRequest(added.cm, id,
                                            ErrorMsg(id, "Failed to send message", 503, ""))
                IN  /\ fetches' = Append(fetches, Fetch(c, id, timeout, "pending", 0, ""))
                    /\ IF ok
                         THEN /\ clients' = [clients EXCEPT
                                               ![c].pendingRequests = @ \cup {id},
                                               ![c].cm = added.cm]
                              /\ toServers' = Append(toServers,
                                                     RequestMsg(id, clients[c].instanceId))
                              /\ UNCHANGED tickQueue
                         ELSE /\ clients' = [clients EXCEPT ![c].cm = failed.cm]
                              /\ tickQueue' = tickQueue \o failed.ticks
                              /\ UNCHANGED toServers
  /\ UNCHANGED <<clockVars, primaryClient, listeners>>
  /\ SysFrameOfClient

\* The host delivers the next envelope from the extension to the webview.
ClientDeliver ==
  /\ toClients # <<>>
  /\ LET web == FireClients(Webview(clients, tickQueue), primaryClient, listeners,
                            Head(toClients))
     IN  /\ clients' = web.clients
         /\ tickQueue' = web.tickQueue
  /\ toClients' = Tail(toClients)
  /\ UNCHANGED <<clockVars, nextReg, lastOp, cmVars, responses, posted, serverVars,
                 primaryClient, listeners, fetches>>

StatusOk(status) == status >= 200 /\ status < 300

\* The two closures fetch() hands to addPendingRequest.
ClientRunTick ==
  /\ tickQueue # <<>>
  /\ LET cb == Head(tickQueue)
         f == fetches[cb.reg]
         c == f.client
     IN  /\ clients' = [clients EXCEPT ![c].pendingRequests = @ \ {f.id}]
         /\ fetches' = [fetches EXCEPT ![cb.reg] =
              IF clients[c].disposed
                THEN Settle(@, "rejected", 0, "HTTP client has been disposed")
              ELSE IF cb.kind = "resolve" /\ StatusOk(cb.arg.status)
                THEN Settle(@, "resolved", cb.arg.status, "")
              ELSE IF cb.kind = "resolve"
                THEN Settle(@, "rejected", cb.arg.status, "HTTP status")
              ELSE Settle(@, "rejected", cb.arg.status, cb.arg.error)]
  /\ tickQueue' = Tail(tickQueue)
  /\ UNCHANGED <<clockVars, nextReg, toServers, primaryClient, listeners>>
  /\ SysFrameOfClient

ClientTimeout(c, timer) ==
  /\ timer \in clients[c].cm.timers
  /\ now >= timer.deadline
  /\ tickQueue = <<>>
  /\ LET r == timeoutFires(clients[c].cm, timer)
     IN  /\ clients' = [clients EXCEPT ![c].cm = r.cm]
         /\ tickQueue' = tickQueue \o r.ticks
  /\ UNCHANGED <<clockVars, nextReg, toServers, primaryClient, listeners, fetches>>
  /\ SysFrameOfClient

\* dispose() of the primary client that elects no successor.
NoNextPrimary(cs, c) == 0

\* The first client of globalClientRegistry (construction order) still alive.
NextPrimary(cs, c) ==
  LET alive == {d \in ClientIds : d # c /\ cs[d].constructed /\ ~cs[d].disposed}
  IN  IF alive = {} THEN 0 ELSE CHOOSE d \in alive : \A e \in alive : d <= e

\* dispose() that forgets to flush the Correlation Manager.
ClientDisposeNoFlush(c) ==
  /\ clients[c].constructed
  /\ IF clients[c].disposed
       THEN UNCHANGED <<clients, primaryClient, listeners, tickQueue>>
       ELSE /\ clients' = [clients EXCEPT ![c].disposed = TRUE,
                                              ![c].pendingRequests = {}]
            /\ primaryClient' = IF primaryClient = c THEN NextPrimary(clients, c)
                                ELSE primaryClient
            /\ listeners' = Remove(listeners, c)
            /\ UNCHANGED tickQueue
  /\ UNCHANGED <<clockVars, nextReg, toServers, fetches>>
  /\ SysFrameOfClient

ClientDispose(c) ==
  /\ clients[c].constructed
  /\ IF clients[c].disposed
       THEN UNCHANGED <<clients, primaryClient, listeners, tickQueue>>
       ELSE LET r == clearAllRequests(clients[c].cm)
            IN  /\ clients' = [clients EXCEPT ![c].disposed = TRUE,
                                              ![c].cm = r.cm,
                                              ![c].pendingRequests = {}]
                /\ primaryClient' = IF primaryClient = c THEN NextPrimary(clients, c)
                                    ELSE primaryClient
                /\ listeners' = Remove(listeners, c)
                /\ tickQueue' = tickQueue \o r.ticks
  /\ UNCHANGED <<clockVars, nextReg, toServers, fetches>>
  /\ SysFrameOfClient

\* --------------------------------------- servers and clients on one webview
Init ==
  /\ now = 0
  /\ advances = 0
  /\ nextReg = 1
  /\ tickQueue = <<>>
  /\ lastOp = Op("new", "", 0, TRUE)
  /\ NoManager
  /\ NoAdapters
  /\ NoExtension
  /\ NoWebview

\* Messaging between the servers and the clients of one webview; every
\* postMessage succeeds (a throwing postMessage is an input of SpecRes).
Next ==
  \/ \E s \in ServerIds : ServerNew(s)
  \/ \E s \in ServerIds : ServerListen(s)
  \/ \E behaviours \in [ServerIds -> Behaviours] : ServerDeliver(behaviours, TRUE)
  \/ \E r \in 1..Len(responses) : HandlerEnd(r, TRUE)
  \/ \E c \in ClientIds, instanceId \in ClientInstanceOptions : ClientNew(c, instanceId)
  \/ \E c \in ClientIds, timeout \in FetchTimeouts : ClientFetch(c, timeout, TRUE)
  \/ ClientDeliver
  \/ ClientRunTick
  \/ \E c \in ClientIds : \E timer \in clients[c].cm.timers : ClientTimeout(c, timer)
  \/ \E timeout \in FetchTimeouts : CMAdvance(timeout[1])

Spec == Init /\ [][Next]_vars

\* The same with servers closing and clients being disposed at any moment.
NextLifecycle ==
  \/ Next
  \/ \E s \in ServerIds : ServerClose(s)
  \/ \E c \in ClientIds : ClientDispose(c)

SpecLifecycle == Init /\ [][NextLifecycle]_vars

\* ------------------------------------------- the servers of a webview alone
\* options.instanceId: absent, or the id the extension chose for its editor.
ServerInstanceOptions == {"", "editor-unique-123"}

\* What a webview may post: a client's request, and envelopes that are no
\* requests.
WebviewMessages(id) ==
  {RequestMsg(id, GeneratedClientId(1)), ResponseMsg(id, 200, {}, <<>>, "")}

\* Where a server is in its life: Idle -> Listening -> Closed.
ServerState(s) ==
  IF servers[s].disposed THEN "Closed"
  ELSE IF servers[s].isListening THEN "Listening"
  ELSE "Idle"

\* lastOp: the call, the state it found the server in, whether it had a callback.
SrvNew(s, instanceId) ==
  /\ Construct(s, instanceId)
  /\ lastOp' = Op("new", "Idle", s, FALSE)

SrvListen(s, callback) ==
  /\ callback => servers[s].callbacks < MaxCallbacks
  /\ Listen(s, callback)
  /\ lastOp' = Op("listen", ServerState(s), s, callback)

SrvClose(s, callback) ==
  /\ callback => servers[s].callbacks < MaxCallbacks
  /\ Close(s, callback)
  /\ lastOp' = Op("close", ServerState(s), s, callback)

\* Construction, listen() and close() in any order, with and without callbacks.
LifeNext ==
  \/ \E s \in ServerIds, instanceId \in ServerInstanceOptions : SrvNew(s, instanceId)
  \/ \E s \in ServerIds, callback \in BOOLEAN : SrvListen(s, callback)
  \/ \E s \in ServerIds, callback \in BOOLEAN : SrvClose(s, callback)

SpecLife == Init /\ [][LifeNext]_vars

\* lastOp under SpecServer: a delivery and the kind of envelope delivered, an
\* end() on some adapter, or another call.
NotADelivery == Op("call", "", 0, TRUE)

\* vscode.postMessage(message) in the webview.
WebviewPost(message) ==
  /\ nextReg <= MaxRequests
  /\ message \in WebviewMessages(FetchId(nextReg))
  /\ nextReg' = nextReg + 1
  /\ toServers' = Append(toServers, message)
  /\ lastOp' = NotADelivery
  /\ UNCHANGED <<clockVars, tickQueue, cmVars, resVars, servers, registry,
                 subscribers, dispatched, clientVars>>

OpenServer(s) == Construct(s, "") /\ lastOp' = NotADelivery

ListenServer(s) == Listen(s, FALSE) /\ lastOp' = NotADelivery

CloseServer(s) == Close(s, FALSE) /\ lastOp' = NotADelivery

DeliverToServers(behaviours, ok) ==
  /\ Deliver(behaviours, ok)
  /\ lastOp' = Op("deliver", Head(toServers).type, 0, TRUE)

EndByHandler(r, ok) == End(r, ok) /\ lastOp' = Op("end", "", 0, TRUE)

\* Servers opened and closed at any moment while the webview posts envelopes.
ServerNext ==
  \/ \E s \in ServerIds : OpenServer(s)
  \/ \E s \in ServerIds : ListenServer(s)
  \/ \E s \in ServerIds : CloseServer(s)
  \/ \E message \in WebviewMessages(FetchId(nextReg)) : WebviewPost(message)
  \/ \E behaviours \in [ServerIds -> Behaviours], ok \in BOOLEAN :
       DeliverToServers(behaviours, ok)
  \/ \E r \in 1..Len(responses), ok \in BOOLEAN : EndByHandler(r, ok)

SpecServer == Init /\ [][ServerNext]_vars

\* ------------------------------- servers on a channel that can deliver inside
\* a listener. lastOp: the delivery, the kind of the envelope delivered first,
\* the server whose listener fired the second (0: none), and whether the second
\* was a request.
Deferring == [s \in ServerIds |-> "defer"]

DeliverOne ==
  /\ Deliver(Deferring, TRUE)
  /\ lastOp' = Op("deliver", Head(toServers).type, 0, FALSE)

DeliverTwo(h) ==
  /\ DeliverReentered(h, Deferring, TRUE)
  /\ lastOp' = Op("deliver", Head(toServers).type, h, isRequestMessage(toServers[2]))

ReentryNext ==
  \/ \E s \in ServerIds : OpenServer(s)
  \/ \E s \in ServerIds : ListenServer(s)
  \/ \E s \in ServerIds : CloseServer(s)
  \/ \E message \in WebviewMessages(FetchId(nextReg)) : WebviewPost(message)
  \/ DeliverOne
  \/ \E h \in ServerIds : DeliverTwo(h)

SpecReentry == Init /\ [][ReentryNext]_vars

\* ----------------------------------- servers and the requests they hand on
\* A request with a body.
RequestWithBody(id, inst) == [RequestMsg(id, inst) EXCEPT !.body = <<"json", <<JsonChunk>>>>]

RequestMessages(id) ==
  {RequestMsg(id, GeneratedClientId(1)), RequestWithBody(id, GeneratedClientId(1))}

\* fetch() with or without a body, from the webview.
WebviewRequest(message) ==
  /\ nextReg <= MaxRequests
  /\ message \in RequestMessages(FetchId(nextReg))
  /\ nextReg' = nextReg + 1
  /\ toServers' = Append(toServers, message)
  /\ lastOp' = NotADelivery
  /\ UNCHANGED <<clockVars, tickQueue, cmVars, resVars, servers, registry,
                 subscribers, dispatched, clientVars>>

\* lastOp of a body callback: the request it ran for.
BodyTick(d) ==
  /\ RequestTick(d)
  /\ lastOp' = Op("tick", dispatched[d].id, d, TRUE)

RequestNext ==
  \/ \E s \in ServerIds : OpenServer(s)
  \/ \E s \in ServerIds : ListenServer(s)
  \/ \E s \in ServerIds : CloseServer(s)
  \/ \E message \in RequestMessages(FetchId(nextReg)) : WebviewRequest(message)
  \/ \E behaviours \in [ServerIds -> {"defer", "end"}] : DeliverToServers(behaviours, TRUE)
  \/ \E d \in 1..Len(dispatched) : BodyTick(d)

SpecRequest == Init /\ [][RequestNext]_vars

\* ------------------------------------------- the clients of a webview alone
\* The instanceId a peer may stamp on an envelope: none, a server's, a client's.
InstanceTags == {"", "server_1", "client_1"}

\* What the extension side may post about request id: a Response or an Error,
\* tagged or not.
PeerMessages(id) ==
  {ResponseMsg(id, 200, {}, <<>>, tag) : tag \in InstanceTags}
    \cup {ErrorMsg(id, "handler failed", 500, tag) : tag \in InstanceTags}

\* The extension side takes the next request off the channel and posts an
\* envelope about it; a request it never takes is never answered.
PeerPost(message) ==
  /\ toServers # <<>>
  /\ message \in PeerMessages(Head(toServers).id)
  /\ toServers' = Tail(toServers)
  /\ toClients' = Append(toClients, message)
  /\ UNCHANGED <<clockVars, nextReg, tickQueue, lastOp, cmVars, responses, posted, servers,
                 registry, subscribers, dispatched, clientVars>>

\* Time passes: longer than any timeout a fetch can have.
Elapse == CMAdvance(DefaultTimeout)

\* fetch() at a moment after which the (bounded) clock can still pass its deadline.
TimedFetch(c, timeout, ok) ==
  /\ advances < MaxAdvances
  /\ ClientFetch(c, timeout, ok)

\* The clients cs fetching and being disposed at any moment while the peer
\* answers as it likes, or not at all.
ClientNextOf(cs) ==
  \/ \E c \in cs, instanceId \in ClientInstanceOptions : ClientNew(c, instanceId)
  \/ \E c \in cs, timeout \in Timeouts, ok \in BOOLEAN : TimedFetch(c, timeout, ok)
  \/ \E id \in {toServers[i].id : i \in 1..Len(toServers)} :
       \E message \in PeerMessages(id) : PeerPost(message)
  \/ ClientDeliver
  \/ ClientRunTick
  \/ \E c \in cs : \E timer \in clients[c].cm.timers : ClientTimeout(c, timer)
  \/ \E c \in cs : ClientDispose(c)
  \/ Elapse

ClientNext == ClientNextOf(ClientIds)

SpecClient == Init /\ [][ClientNext]_vars

\* One client alone in its webview.
SoleClient == {1}

SoleClientNext == ClientNextOf(SoleClient)

\* Timers and ticks are run by the event loop, messages are delivered by the
\* host, and time passes.
ClientFairness ==
  /\ WF_vars(ClientRunTick)
  /\ WF_vars(ClientDeliver)
  /\ WF_vars(\E c \in SoleClient : \E timer \in clients[c].cm.timers : ClientTimeout(c, timer))
  /\ WF_vars(Elapse)

SpecClientFair == Init /\ [][SoleClientNext]_vars /\ ClientFairness

\* =================================================================== claims
\* ---- Correlation Manager, checked under SpecCM

\* How often registration r has been settled: callbacks already run plus
\* callbacks scheduled on the nextTick queue.
Queued(r) == Cardinality({i \in 1..Len(tickQueue) : tickQueue[i].reg = r})

Settlements(r) == calls[r].resolve + calls[r].reject + Queued(r)

C1_AtMostOneCallback == \A r \in Regs : Settlements(r) <= 1

C1_SettledIsNoOp ==
  (lastOp'.op \in {"resolve", "reject"} /\ ~MapHas(cm.pendingRequests, lastOp'.id))
    => /\ lastOp'.ret = FALSE
       /\ cm' = cm
       /\ tickQueue' = tickQueue
       /\ calls' = calls

\* C1: for every tracked registration at most one of its two callbacks is ever
\* invoked (or scheduled), at most once, under any sequence of resolveRequest,
\* rejectRequest, timeouts, cleanupExpiredRequests and clearAllRequests; and a
\* resolveRequest or rejectRequest on an id that is not pending (settled before,
\* or never tracked) returns false, invokes and schedules no callback and leaves
\* the manager unchanged.
C1_ExactlyOnce == [](C1_AtMostOneCallback) /\ [][C1_SettledIsNoOp]_vars

\* A resolve/reject was refused for an id whose registration had been settled.
C1_Witness ==
  /\ lastOp.op \in {"resolve", "reject"}
  /\ lastOp.ret = FALSE
  /\ \E r \in Regs : /\ calls[r].resolve + calls[r].reject = 1
                     /\ calls[r].arg[1].id = lastOp.id

TimeoutError(id) == ErrorMsg(id, "Request timeout", 408, "")

C2_TimeoutStep ==
  (/\ lastOp'.op = "timeout"
   /\ MapHas(cm.pendingRequests, lastOp'.id)
   /\ MapGet(cm.pendingRequests, lastOp'.id).reg = lastOp'.reg)
    => /\ lastOp'.ret = TRUE
       /\ tickQueue' = Append(tickQueue,
                              Callback(lastOp'.reg, "reject", TimeoutError(lastOp'.id)))
       /\ ~MapHas(cm'.pendingRequests, lastOp'.id)
       /\ \A t \in cm'.timers : t.reg # lastOp'.reg
       /\ resolveRequest(cm', lastOp'.id, ResponseMsg(lastOp'.id, 200, {}, <<>>, "")).ret = FALSE
       /\ resolveRequest(cm', lastOp'.id, ResponseMsg(lastOp'.id, 200, {}, <<>>, "")).ticks = <<>>

C2_TimedOutStaysRejected ==
  \A r \in Regs :
    (\E i \in 1..Len(tickQueue) :
        tickQueue[i].reg = r /\ tickQueue[i].arg.error = "Request timeout")
    \/ (calls[r].arg # <<>> /\ calls[r].arg[1].error = "Request timeout")
    => calls[r].resolve = 0 /\ Settlements(r) = 1

\* C2: when the timer of a request that is still pending fires, the request's
\* reject callback is scheduled with the 408 'Request timeout' error and the
\* entry leaves the pending table with its timer; a resolveRequest for that id
\* then returns false and schedules nothing, and the resolve callback of a
\* timed-out registration never runs.
C2_TimeoutRejects == [][C2_TimeoutStep]_vars /\ [](C2_TimedOutStaysRejected)

\* A request timed out, its reject callback ran with the 408 error, and a later
\* resolveRequest for its id was refused.
C2_Witness ==
  /\ lastOp.op = "resolve"
  /\ lastOp.ret = FALSE
  /\ \E r \in Regs : /\ calls[r].reject = 1
                     /\ calls[r].resolve = 0
                     /\ calls[r].arg[1] = TimeoutError(lastOp.id)

C3_ClearAllStep ==
  lastOp'.op = "clearAll" =>
    IF cm.disposed
      THEN cm' = cm /\ tickQueue' = tickQueue /\ calls' = calls
      ELSE LET was == cm.pendingRequests
               added == SubSeq(tickQueue', Len(tickQueue) + 1, Len(tickQueue'))
           IN  /\ cm'.disposed
               /\ cm'.pendingRequests = <<>>
               /\ calls' = calls
               /\ SubSeq(tickQueue', 1, Len(tickQueue)) = tickQueue
               /\ Len(added) = Len(was)
               /\ \A i \in 1..Len(was) :
                    /\ added[i].reg = was[i].reg
                    /\ added[i].kind = "reject"
                    /\ added[i].arg.status = 503
                    /\ added[i].arg.error = "Connection closed"
                    /\ \A t \in cm'.timers : t.reg # was[i].timeout

C3_RejectedOnce == \A r \in Regs : Settlements(r) <= 1

\* C3: clearAllRequests on a manager that is not disposed schedules exactly one
\* reject callback, with the 503 'Connection closed' error, for every request
\* pending at the call, cancels their timers and empties the table; no
\* registration is ever settled twice; and clearAllRequests on a disposed manager
\* (a second call) invokes no callback and changes nothing.
C3_ClearAllOnce == [][C3_ClearAllStep]_vars /\ [](C3_RejectedOnce)

\* Two pending requests were flushed, both reject callbacks ran once with
\* 'Connection closed', and clearAllRequests was called again after that.
C3_Witness ==
  /\ lastOp.op = "clearAll"
  /\ cm.disposed
  /\ tickQueue = <<>>
  /\ Cardinality({r \in Regs : /\ calls[r].reject = 1
                               /\ calls[r].resolve = 0
                               /\ calls[r].arg[1].status = 503
                               /\ calls[r].arg[1].error = "Connection closed"}) >= 2

DisposedError(id) == ErrorMsg(id, "Correlation manager has been disposed", 503, "")

C4_AddAfterDisposeStep ==
  (lastOp'.op = "add" /\ cm.disposed) =>
    /\ cm' = cm
    /\ tickQueue' = tickQueue
    /\ calls' = [calls EXCEPT ![lastOp'.reg] =
                   [resolve |-> 0, reject |-> 1, arg |-> <<DisposedError(lastOp'.id)>>]]

C4_NeverResolved ==
  \A r \in Regs :
    (calls[r].arg # <<>> /\ calls[r].arg[1].error = "Correlation manager has been disposed")
      => /\ calls[r].resolve = 0
         /\ calls[r].reject = 1
         /\ Queued(r) = 0
         /\ \A i \in 1..Len(cm.pendingRequests) : cm.pendingRequests[i].reg # r
         /\ \A t \in cm.timers : t.reg # r

\* C4: addPendingRequest on a disposed manager invokes the supplied reject
\* callback once, within the call, with the 503 'Correlation manager has been
\* disposed' error; it adds no entry, arms no timer and schedules nothing, and
\* the resolve callback of such a registration never runs.
C4_DisposedFailsFast == [][C4_AddAfterDisposeStep]_vars /\ [](C4_NeverResolved)

\* An addPendingRequest was made on a disposed manager and its reject ran.
C4_Witness ==
  /\ lastOp.op = "add"
  /\ cm.disposed
  /\ calls[lastOp.reg].reject = 1
  /\ calls[lastOp.reg].arg[1] = DisposedError(lastOp.id)

\* ---- Response adapter, checked under SpecRes

C5_EndStep ==
  lastOp'.op = "end" =>
    /\ (responses[1].finished \/ responses[1].responseSent \/ responses[1].disposed)
         => /\ responses' = responses
            /\ posted' = posted
            /\ toClients' = toClients
    /\ ~responses[1].disposed
         => /\ Len(posted') = 1
            /\ responses'[1].responseSent
            /\ responses'[1].finished

C5_OneEnvelope ==
  /\ Len(posted) <= 1
  /\ Len(toClients) <= Len(posted)
  /\ responses[1].responseSent <=> Len(posted) = 1
  /\ \A i \in 1..Len(posted) : /\ posted[i].msg.id = responses[1].correlationId
                               /\ posted[i].msg.type = "response"

\* C5: after any end() call on an adapter that was not disposed before it,
\* exactly one envelope has been handed to the channel, however many end()
\* calls were made and however they were interleaved with setHeader,
\* removeHeader, writeHead and write; an end() on an adapter that is already
\* finished sends nothing and changes nothing.
C5_EndIdempotent == [][C5_EndStep]_vars /\ [](C5_OneEnvelope)

\* A second end() was ignored on an adapter with headers and a buffered body.
C5_Witness ==
  /\ lastOp.op = "end"
  /\ lastOp.ret = FALSE
  /\ ~responses[1].disposed
  /\ Len(posted) = 1
  /\ responses[1].body # <<>>
  /\ responses[1].headers # {}


\* ---- Servers and clients on one webview, checked under Spec

\* The envelopes the extension side posted with correlation id `id`.
Answers(id) == {i \in 1..Len(posted) : posted[i].msg.id = id}

\* The host handed the head of toClients to the webview's listeners in this step.
Delivering == Len(toClients') < Len(toClients)

\* C6: for every request a server dispatched, the extension side sends at most
\* one answering envelope with that request's correlation id: not a Response
\* and an Error, and not two of either, whatever the 'request' handler does.
C6_AtMostOneAnswer ==
  \A d \in 1..Len(dispatched) : Cardinality(Answers(dispatched[d].id)) <= 1

\* C7: every Response or Error envelope that answers a request carrying an
\* instanceId carries that same instanceId.
C7_InstanceIdEchoed ==
  \A d \in 1..Len(dispatched) : \A i \in Answers(dispatched[d].id) :
    dispatched[d].instanceId # "" => posted[i].msg.instanceId = dispatched[d].instanceId

\* One listening server and one client, neither given an instanceId by the user.
AutoIdPair ==
  /\ servers[1].constructed /\ servers[1].isListening /\ ~servers[2].constructed
  /\ clients[1].constructed /\ ~clients[1].disposed /\ ~clients[2].constructed
  /\ clients[1].instanceId = GeneratedClientId(1)

\* C8: with one listening server and one client, both with generated instance
\* ids, the Response the handler's end() produced settles the fetch when it
\* reaches the client: delivered while the fetch is still pending, it
\* schedules the fetch's resolve callback with that Response.
C8_ResponseSettlesFetch ==
  [][(/\ Delivering
      /\ AutoIdPair
      /\ isResponseMessage(Head(toClients))
      /\ MapHas(clients[1].cm.pendingRequests, Head(toClients).id))
     => \E i \in 1..Len(tickQueue') :
          /\ tickQueue'[i].kind = "resolve"
          /\ tickQueue'[i].arg = Head(toClients)]_vars

\* C9: a server dispatches (emits 'request' for) no request whose instanceId is
\* present and differs from the server's own instance id; so with two listening
\* servers a request tagged with one server's id never reaches the other's handler.
C9_ServerFiltersByInstance ==
  \A d \in 1..Len(dispatched) :
    dispatched[d].instanceId # ""
      => dispatched[d].instanceId = servers[dispatched[d].server].instanceId

\* The envelope being delivered is tagged for an instance other than client c.
ForAnotherInstance(c) ==
  /\ Head(toClients).instanceId # ""
  /\ Head(toClients).instanceId # clients[c].instanceId

\* C10: an inbound Response or Error envelope whose instanceId is present and
\* differs from a client's own instance id leaves that client's pending table
\* and timers as they were and schedules no settlement of any of its fetches,
\* even when the envelope's correlation id is one of the client's pending ids.
C10_ClientFiltersByInstance ==
  [][Delivering =>
       \A c \in ClientIds :
         ForAnotherInstance(c) =>
           /\ clients'[c] = clients[c]
           /\ \A i \in (Len(tickQueue) + 1)..Len(tickQueue') :
                fetches[tickQueue'[i].reg].client # c]_vars

\* A client has a fetch pending whose id came back on an envelope tagged for
\* another instance; the envelope has been delivered and the fetch is still
\* pending, its entry still in the table.
C10_Witness ==
  /\ toClients = <<>>
  /\ \E f \in 1..Len(fetches) : \E i \in Answers(fetches[f].id) :
       LET c == fetches[f].client
       IN  /\ posted[i].ok
           /\ posted[i].msg.instanceId # ""
           /\ posted[i].msg.instanceId # clients[c].instanceId
           /\ ~clients[c].disposed
           /\ fetches[f].state = "pending"
           /\ MapHas(clients[c].cm.pendingRequests, fetches[f].id)
           /\ \A k \in 1..Len(tickQueue) : tickQueue[k].reg # f

\* ---- Server lifecycle, checked under SpecLife

\* C11: a server constructed with options.instanceId reports exactly that id
\* from getInstanceId(), whatever listen() and close() calls follow.
C11_ReportsGivenInstanceId ==
  \A s \in ServerIds :
    (servers[s].constructed /\ servers[s].options # "")
      => getInstanceId(s) = servers[s].options

\* ---- Clients, checked under SpecClient and SpecClientFair

\* Fetch f was issued with an effective timeout greater than 0.
Timed(f) ==
  /\ f <= Len(fetches)
  /\ EffectiveTimeout(clients[fetches[f].client].cm, fetches[f].timeout) > 0

Settled(f) == f <= Len(fetches) /\ fetches[f].state # "pending"

\* C12: every fetch with an effective timeout greater than 0 eventually
\* settles, whatever the peer does (a matching Response or Error, one tagged
\* for another instance, nothing at all), also when the send fails or the
\* client is disposed later, provided timers and ticks run and time passes.
C12_FetchSettles ==
  \A f \in 1..(MaxFetches + 1) :
    Timed(f) ~> Settled(f)

\* A fetch nobody answered has been rejected by its timer.
C12_Witness ==
  \E f \in 1..Len(fetches) :
    /\ \E i \in 1..Len(toServers) : toServers[i].id = fetches[f].id
    /\ ~clients[fetches[f].client].disposed
    /\ Timed(f)
    /\ fetches[f].state = "rejected"
    /\ fetches[f].status = 408

\* How many subscriptions to the channel server s holds.
Subscriptions(s) == Cardinality({i \in 1..Len(subscribers) : subscribers[i] = s})

C13_AtMostOneSubscription == \A s \in ServerIds : Subscriptions(s) <= 1

C13_ListenWhileListening ==
  (lastOp'.op = "listen" /\ lastOp'.id = "Listening")
    => /\ subscribers' = subscribers
       /\ servers'[lastOp'.reg].isListening
       /\ lastOp'.ret =>
            servers'[lastOp'.reg].callbacks = servers[lastOp'.reg].callbacks + 1

\* C13: whatever listen() calls are made, a server holds at most one channel
\* subscription at any time; a listen() on a Listening server adds none, and
\* its callback is still handed to process.nextTick.
C13_SingleSubscription ==
  [](C13_AtMostOneSubscription) /\ [][C13_ListenWhileListening]_vars

\* listen(callback) has just been called on a server that was Listening.
C13_Witness ==
  /\ lastOp.op = "listen" /\ lastOp.id = "Listening" /\ lastOp.ret
  /\ Subscriptions(lastOp.reg) = 1
  /\ servers[lastOp.reg].callbacks >= 1

\* ---- Servers and the envelopes a webview posts, checked under SpecServer

\* The requests server s emitted 'request' for, and the envelopes it and its
\* adapters handed to postMessage.
DispatchedBy(s) == {i \in 1..Len(dispatched) : dispatched[i].server = s}

PostedBy(s) == {i \in 1..Len(posted) : posted[i].by = s}

\* C14: once close() has taken a server to Closed, no listen(), close(),
\* delivery or late end() makes it Listening or subscribed again, makes it
\* emit 'request', or makes it send an envelope.
C14_ClosedIsFinal ==
  [][\A s \in ServerIds :
       servers[s].disposed =>
         /\ servers'[s].disposed
         /\ ~servers'[s].isListening
         /\ \A i \in 1..Len(subscribers') : subscribers'[i] # s
         /\ {i \in 1..Len(dispatched') : dispatched'[i].server = s} = DispatchedBy(s)
         /\ {i \in 1..Len(posted') : posted'[i].by = s} = PostedBy(s)]_vars

\* A request has just been delivered while every server of the webview was
\* Closed, one of them having served a request before.
C14_Witness ==
  /\ lastOp.op = "deliver" /\ lastOp.id = "request"
  /\ \A s \in ServerIds : servers[s].constructed => servers[s].disposed
  /\ \E s \in ServerIds : servers[s].disposed /\ DispatchedBy(s) # {}

\* close() takes server s from Listening to Closed in this step.
Closing(s) == servers[s].isListening /\ ~servers[s].disposed /\ servers'[s].disposed

C15_CloseStep ==
  \A s \in ServerIds :
    Closing(s) =>
      /\ \A r \in servers[s].pendingResponses : responses'[r].disposed
      /\ servers'[s].pendingResponses = {}
      /\ \A i \in 1..Len(subscribers') : subscribers'[i] # s

C15_DisposedAdapterIsMute ==
  \A r \in 1..Len(responses) :
    responses[r].disposed =>
      {i \in 1..Len(posted') : posted'[i].msg.id = responses[r].correlationId}
        = Answers(responses[r].correlationId)

\* C15: close() on a Listening server disposes every adapter in flight, empties
\* the in-flight set and removes the subscription; from then on no step, an
\* end() on such an adapter included, hands an envelope for it to postMessage.
C15_CloseDisposesInFlight ==
  [][C15_CloseStep /\ C15_DisposedAdapterIsMute]_vars

\* end() has just been called on an adapter that was in flight when its server
\* closed: every adapter there is was disposed unanswered, and nothing was sent.
C15_Witness ==
  /\ lastOp.op = "end"
  /\ responses # <<>>
  /\ posted = <<>>
  /\ \A r \in 1..Len(responses) :
       /\ responses[r].disposed
       /\ ~responses[r].responseSent
       /\ servers[responses[r].owner].disposed
       /\ servers[responses[r].owner].pendingResponses = {}

\* The 'request' handler threw while the request logged as d was dispatched.
Threw(d) == d.behaviour \in {"throw", "endThrow"}

\* The server that handles the next request: the one the registry names if it
\* is alive, else any subscriber.
Serving(s) ==
  /\ \E i \in 1..Len(subscribers) : subscribers[i] = s
  /\ servers[s].isListening /\ ~servers[s].disposed
  /\ registry = s \/ registry = 0 \/ servers[registry].disposed

C16_ErrorSent ==
  \A d \in 1..Len(dispatched) :
    Threw(dispatched[d]) =>
      \E i \in PostedBy(dispatched[d].server) :
        posted[i].msg = ErrorMsg(dispatched[d].id, "handler failed", 500,
                                 servers[dispatched[d].server].instanceId)

C16_LockReleased == \A s \in ServerIds : ~servers[s].messageHandlerLock

C16_StaysListening ==
  \A s \in ServerIds :
    (Len(dispatched') > Len(dispatched) /\ dispatched'[Len(dispatched')].server = s)
      => servers'[s].isListening /\ ~servers'[s].disposed

C16_NextDispatched ==
  \A s \in ServerIds :
    (/\ lastOp'.op = "deliver" /\ lastOp'.id = "request"
     /\ Serving(s)
     /\ \E d \in DispatchedBy(s) : Threw(dispatched[d]))
      => /\ Len(dispatched') = Len(dispatched) + 1
         /\ dispatched'[Len(dispatched')].server = s
         /\ dispatched'[Len(dispatched')].id = Head(toServers).id

\* C16: when the 'request' handler throws synchronously, the server hands an
\* Error envelope with status 500, the request's correlation id and its own
\* instance id to postMessage, stays Listening with the lock released, and
\* dispatches the next request delivered to it.
C16_ThrowIsAnswered ==
  /\ [](C16_ErrorSent /\ C16_LockReleased)
  /\ [][C16_StaysListening /\ C16_NextDispatched]_vars

\* A handler threw on the first request, the Error went out, and the same
\* server has just dispatched the second request.
C16_Witness ==
  /\ lastOp.op = "deliver" /\ lastOp.id = "request"
  /\ Len(dispatched) = 2
  /\ dispatched[1].behaviour = "throw"
  /\ dispatched[2].server = dispatched[1].server
  /\ dispatched[2].behaviour = "end"
  /\ \E i \in PostedBy(dispatched[1].server) :
       isErrorMessage(posted[i].msg) /\ posted[i].msg.id = dispatched[1].id
                                     /\ posted[i].msg.status = 500

\* ---- Servers and clients on one webview, checked under Spec (continued)

\* C17: when the server's handler throws while processing a client's request,
\* the Error envelope (status 500, the handler's message) rejects that client's
\* fetch: delivered while the fetch is pending at the client that issued it,
\* it schedules the fetch's reject callback with that envelope.
C17_HandlerErrorRejectsFetch ==
  [][\A f \in 1..Len(fetches) :
       (/\ Delivering
        /\ isErrorMessage(Head(toClients))
        /\ Head(toClients).status = 500
        /\ Head(toClients).id = fetches[f].id
        /\ fetches[f].state = "pending"
        /\ ~clients[fetches[f].client].disposed
        /\ MapHas(clients[fetches[f].client].cm.pendingRequests, fetches[f].id))
       => \E i \in 1..Len(tickQueue') :
            /\ tickQueue'[i].reg = f
            /\ tickQueue'[i].kind = "reject"
            /\ tickQueue'[i].arg = Head(toClients)]_vars

\* ---- Clients (continued), checked under SpecClient

\* dispose() takes client c from live to disposed in this step.
Disposing(c) == clients[c].constructed /\ ~clients[c].disposed /\ clients'[c].disposed

\* The callbacks scheduled in this step.
NewTicks == SubSeq(tickQueue', Len(tickQueue) + 1, Len(tickQueue'))

C18_DisposeStep ==
  \A c \in ClientIds :
    Disposing(c) =>
      /\ \A i \in 1..Len(listeners') : listeners'[i] # c
      /\ getPendingCount(clients'[c].cm) = 0
      /\ clients'[c].pendingRequests = {}
      /\ Len(NewTicks) = getPendingCount(clients[c].cm)
      /\ \A i \in 1..Len(clients[c].cm.pendingRequests) :
           /\ NewTicks[i].reg = clients[c].cm.pendingRequests[i].reg
           /\ NewTicks[i].kind = "reject"

C18_DisposedIsInert ==
  \A c \in ClientIds :
    clients[c].disposed =>
      /\ clients'[c] = clients[c]
      /\ \A i \in 1..Len(NewTicks) : fetches'[NewTicks[i].reg].client # c
      /\ \A f \in (Len(fetches) + 1)..Len(fetches') :
           fetches'[f].client = c =>
             /\ fetches'[f].state = "rejected"
             /\ toServers' = toServers
             /\ tickQueue' = tickQueue

C18_DisposedIsEmpty ==
  \A c \in ClientIds :
    clients[c].disposed =>
      /\ \A i \in 1..Len(listeners) : listeners[i] # c
      /\ getPendingCount(clients[c].cm) = 0
      /\ clients[c].cm.timers = {}
      /\ clients[c].pendingRequests = {}

\* C18: the first dispose() removes the client's channel listener and flushes
\* every pending request through the Correlation Manager (one rejection each),
\* leaving the pending count at 0; from then on nothing changes the client (a
\* second dispose() included), a fetch() on it is rejected at once without an
\* envelope on the channel and without a pending entry, and no inbound
\* envelope schedules a settlement of any of its fetches.
C18_DisposeIsFinal ==
  [](C18_DisposedIsEmpty) /\ [][C18_DisposeStep /\ C18_DisposedIsInert]_vars

\* A client was disposed with a request out on the channel and unanswered,
\* before any timer could fire: the flush has rejected its fetch.
C18_Witness ==
  \E f \in 1..Len(fetches) :
    /\ now = 0
    /\ \E i \in 1..Len(toServers) : toServers[i].id = fetches[f].id
    /\ clients[fetches[f].client].disposed
    /\ fetches[f].state = "rejected"
    /\ fetches[f].error = "HTTP client has been disposed"
    /\ tickQueue = <<>>

\* The event loop runs the callback at the head of the nextTick queue in this step.
Running == tickQueue # <<>> /\ tickQueue' = Tail(tickQueue)

\* The error fetch() hands to rejectRequest when postMessage throws.
SendFailure == "Failed to send message"

\* C19: a rejected fetch carries the status of what rejected it: 408 of the
\* timer ('Request timeout'), 500 of the remote handler's Error envelope, 503
\* of the flush on dispose ('Connection closed').
C19_RejectionCarriesCauseStatus ==
  [][(/\ Running
      /\ Head(tickQueue).kind = "reject"
      /\ Head(tickQueue).arg.error # SendFailure
      /\ fetches[Head(tickQueue).reg].state = "pending")
     => /\ Head(tickQueue).arg.status \in {408, 500, 503}
        /\ fetches'[Head(tickQueue).reg].state = "rejected"
        /\ fetches'[Head(tickQueue).reg].status = Head(tickQueue).arg.status]_vars

\* fetch() of a live client whose postMessage throws: the fetch is logged and
\* no envelope reaches the channel.
SendThrew ==
  /\ Len(fetches') = Len(fetches) + 1
  /\ ~clients[fetches'[Len(fetches')].client].disposed
  /\ toServers' = toServers

\* The id of the fetch is in neither the manager's table, its timers nor the
\* client's pending set.
Forgotten(f) ==
  /\ ~MapHas(clients[f.client].cm.pendingRequests, f.id)
  /\ \A timer \in clients[f.client].cm.timers : timer.id # f.id
  /\ f.id \notin clients[f.client].pendingRequests

\* C20: a fetch() whose postMessage throws returns a promise (nothing is
\* thrown), leaves the id neither in the manager's table, with no timer armed,
\* nor in the client's pending set, and the promise is rejected with status 503.
C20_SendFailureRejects503 ==
  /\ [](\A i \in 1..Len(fetches) :
          (\E j \in 1..Len(tickQueue) :
              tickQueue[j].reg = i /\ tickQueue[j].arg.error = SendFailure)
          => Forgotten(fetches[i]))
  /\ [][/\ SendThrew
           => /\ fetches'[Len(fetches')].state = "pending"
              /\ tickQueue' = Append(tickQueue,
                   Callback(Len(fetches'), "reject",
                            ErrorMsg(fetches'[Len(fetches')].id, SendFailure, 503, "")))
        /\ (/\ Running
            /\ Head(tickQueue).arg.error = SendFailure)
           => /\ fetches'[Head(tickQueue).reg].state = "rejected"
              /\ fetches'[Head(tickQueue).reg].status = 503]_vars

\* ---- Server life cycle, checked under SpecLife (continued)

\* close() has been called in this step on server s, which was not Closed.
ClosingCall(s) == lastOp'.op = "close" /\ lastOp'.reg = s /\ lastOp'.id # "Closed"

\* C21: close() on a server that is not Closed, an Idle one included, takes it
\* to Closed: it is the registered server of its webview no longer, and no
\* later listen() subscribes it to the channel.
C21_CloseAlwaysCloses ==
  [][\A s \in ServerIds :
       /\ ClosingCall(s) => /\ servers'[s].disposed
                            /\ ~servers'[s].isListening
                            /\ registry' # s
                            /\ Subscriptions(s)' = 0
       /\ (servers[s].disposed /\ lastOp'.op = "listen" /\ lastOp'.reg = s)
            => subscribers' = subscribers]_vars

\* ---- Servers on a channel that delivers inside a listener, checked under
\* ---- SpecReentry

\* The place of a request in the channel's delivery order: envelopes are
\* delivered in the order they were posted, which is how FetchId numbers them.
DeliveryRank(id) == CHOOSE n \in 1..(MaxRequests + 1) : FetchId(n) = id

\* The 'request' events server s emits in this step. A step is one event of
\* the channel at top level: whatever else is delivered in it is delivered
\* while the listeners of that event are running.
NewDispatches(s) ==
  {i \in (Len(dispatched) + 1)..Len(dispatched') : dispatched'[i].server = s}

C22_OneAtATime == \A s \in ServerIds : Cardinality(NewDispatches(s)) <= 1

C22_InDeliveryOrder ==
  \A s \in ServerIds : \A i, j \in DispatchedBy(s) :
    i < j => DeliveryRank(dispatched[i].id) < DeliveryRank(dispatched[j].id)

\* C22: a server dispatches one request at a time and in delivery order: no
\* 'request' event of a server is emitted while an earlier dispatch of that
\* server is still running (an envelope delivered meanwhile is not dispatched),
\* the lock is free between deliveries, and the 'request' events of a server
\* follow the order in which the channel delivered their requests.
C22_OneAtATimeInOrder ==
  /\ [](C22_InDeliveryOrder /\ \A s \in ServerIds : ~servers[s].messageHandlerLock)
  /\ [][C22_OneAtATime]_vars

\* A request was delivered and, while server h was dispatching it, a second
\* request: h emitted 'request' for the first only.
C22_Witness ==
  /\ lastOp.op = "deliver" /\ lastOp.id = "request"
  /\ lastOp.reg \in ServerIds /\ lastOp.ret
  /\ toServers = <<>>
  /\ Len(dispatched) = 1
  /\ dispatched[1].server = lastOp.reg
  /\ dispatched[1].id = FetchId(1)

\* The envelopes the channel delivers in this step: the next one and, when a
\* listener fires the channel again, the one after it.
DeliveredNow == IF lastOp'.reg = 0 THEN {1} ELSE {1, 2}

\* C23: no request delivered to a Listening server that handles its webview's
\* requests is lost: each one, also one delivered while the server is still
\* dispatching another, makes the server emit exactly one 'request' event for it.
C23_NoRequestLost ==
  [][\A s \in ServerIds :
       (lastOp'.op = "deliver" /\ Serving(s)) =>
         \A k \in DeliveredNow :
           isRequestMessage(toServers[k]) =>
             Cardinality({i \in NewDispatches(s) : dispatched'[i].id = toServers[k].id}) = 1]_vars

\* ---- Correlation Manager, checked under SpecCM (continued)

\* The registrations that hold an entry of the pending table.
Tracked == {cm.pendingRequests[i].reg : i \in 1..Len(cm.pendingRequests)}

C24_ReturnsFirst ==
  lastOp'.op \in {"resolve", "reject", "clearAll"}
    => /\ calls' = calls
       /\ Len(tickQueue') >= Len(tickQueue)
       /\ SubSeq(tickQueue', 1, Len(tickQueue)) = tickQueue
       /\ \A i \in (Len(tickQueue) + 1)..Len(tickQueue') :
            /\ tickQueue'[i].reg \in Tracked
            /\ tickQueue'[i].kind = (IF lastOp'.op = "resolve" THEN "resolve" ELSE "reject")

C24_RemovedBeforeCallback ==
  \A i \in 1..Len(tickQueue) : tickQueue[i].reg \notin Tracked

\* C24: resolveRequest, rejectRequest and clearAllRequests run no callback
\* before they return: the callbacks of the entries they settle are put on the
\* nextTick queue, and an entry whose callback waits there is in the pending
\* table no more.
C24_CallbacksAreDeferred ==
  [](C24_RemovedBeforeCallback) /\ [][C24_ReturnsFirst]_vars

\* resolveRequest has just returned true: the callback waits on the nextTick
\* queue, has not run, and the id is not pending.
C24_Witness ==
  /\ lastOp.op = "resolve" /\ lastOp.ret = TRUE
  /\ tickQueue # <<>>
  /\ tickQueue[Len(tickQueue)].kind = "resolve"
  /\ calls[tickQueue[Len(tickQueue)].reg] = NoCalls
  /\ ~MapHas(cm.pendingRequests, lastOp.id)

\* The reject callback of registration r, scheduled by clearAllRequests, has
\* run, or waits on the nextTick queue.
FlushRan(r) ==
  /\ calls[r].reject >= 1
  /\ calls[r].arg[1].error = "Connection closed"

FlushQueued(r) ==
  \E i \in 1..Len(tickQueue) :
    /\ tickQueue[i].reg = r
    /\ tickQueue[i].kind = "reject"
    /\ tickQueue[i].arg.error = "Connection closed"

\* A call made from a callback of the flush, or after one: the callback has
\* been entered, and the manager is called again.
Reentering ==
  /\ \E r \in Regs : FlushRan(r)
  /\ lastOp'.op \in {"clearAll", "add", "resolve", "reject"}

C25_ReentryStep ==
  Reentering =>
    /\ \A r \in Regs : FlushRan(r) => calls'[r] = calls[r]
    /\ \A r \in Regs : FlushQueued(r) => calls'[r] = calls[r] /\ Queued(r)' = 1
    /\ \A r \in Regs : calls'[r] # calls[r] => lastOp'.op = "add" /\ lastOp'.reg = r

C25_FlushedOnce ==
  \A r \in Regs :
    (FlushRan(r) \/ FlushQueued(r)) => Settlements(r) = 1 /\ calls[r].resolve = 0

\* C25: calling clearAllRequests, addPendingRequest, resolveRequest or
\* rejectRequest from a reject callback of a flush invokes no callback that was
\* already invoked (only the reject callback of a new addPendingRequest runs),
\* and every entry the flush took from the table keeps exactly one rejection:
\* run once, or still waiting once on the nextTick queue.
C25_ReentrantFlushIsSafe ==
  [](C25_FlushedOnce) /\ [][C25_ReentryStep]_vars

\* Two entries were flushed; the reject callback of one has run and the manager
\* was called again from it while the other's callback was still waiting.
C25_Witness ==
  /\ lastOp.op \in {"clearAll", "resolve", "reject"}
  /\ \E r, q \in Regs :
       /\ r # q
       /\ FlushRan(r) /\ calls[r].reject = 1
       /\ FlushQueued(q) /\ calls[q] = NoCalls

\* ---- Response adapter, checked under SpecRes (continued)

\* C26: once an adapter is disposed, setHeader, removeHeader, writeHead, write,
\* end and dispose leave its headers, status and buffered body (the whole
\* adapter) as they are and hand nothing to postMessage; write returns false.
C26_DisposedIsFrozen ==
  [][responses[1].disposed =>
       /\ responses' = responses
       /\ posted' = posted
       /\ toClients' = toClients
       /\ lastOp'.op = "write" => lastOp'.ret = FALSE]_vars

\* write() has just returned false on an adapter that was disposed, unanswered,
\* with a header set and a chunk buffered.
C26_Witness ==
  /\ lastOp.op = "write" /\ lastOp.ret = FALSE
  /\ responses[1].disposed
  /\ ~responses[1].responseSent
  /\ responses[1].headers # {}
  /\ responses[1].body # <<>>
  /\ posted = <<>>

\* C27: once the headers of an adapter are sent (writeHead, the first write, or
\* end), setHeader and removeHeader leave the header map as it is.
C27_HeadersFrozenOnceSent ==
  [][(responses[1].headersSent /\ lastOp'.op \in {"setHeader", "removeHeader"})
       => responses'[1].headers = responses[1].headers]_vars

\* Open: headers not sent, not ended, not disposed.
Open(res) == ~res.headersSent /\ ~res.responseSent /\ ~res.disposed

\* The headers argument of the writeHead of this step.
GivenHeaders == {h \in UNION WriteHeadHeaders : h[1] = lastOp'.id}

\* C28: writeHead on an Open adapter sets the status, merges the headers it is
\* given and moves the adapter to HeadersSent; a writeHead after the headers are
\* sent (by writeHead, by a write, or by end) or after dispose changes nothing.
\* No writeHead sends anything.
C28_WriteHeadOnlyWhenOpen ==
  [][lastOp'.op = "writeHead" =>
       /\ posted' = posted
       /\ IF Open(responses[1])
            THEN responses'[1] =
                   [responses[1] EXCEPT !.statusCode = lastOp'.reg,
                                        !.headers = ObjectAssign(@, GivenHeaders),
                                        !.headersSent = TRUE]
            ELSE responses' = responses]_vars

\* writeHead(404, headers) has just been ignored on an adapter whose headers
\* went out with its first write: status 200, no header, not finished.
C28_Witness ==
  /\ lastOp.op = "writeHead"
  /\ lastOp.reg = 404 /\ lastOp.id # ""
  /\ responses[1].headersSent /\ ~responses[1].finished /\ ~responses[1].disposed
  /\ responses[1].body # <<>>
  /\ responses[1].statusCode = 200
  /\ responses[1].headers = {}

\* ---- Servers and the envelopes a webview posts, checked under SpecServer
\* ---- (continued)

\* The adapters server s made for the request with correlation id `id`.
AdaptersOf(s, id) ==
  {r \in 1..Len(responses) : responses[r].owner = s /\ responses[r].correlationId = id}

\* The Response envelopes the adapters of server s handed to postMessage for id.
ResponsesSent(s, id) ==
  {i \in PostedBy(s) : posted[i].msg.id = id /\ isResponseMessage(posted[i].msg)}

C29_FailedSendFinishes ==
  \A i \in 1..Len(posted) :
    (isResponseMessage(posted[i].msg) /\ ~posted[i].ok) =>
      /\ AdaptersOf(posted[i].by, posted[i].msg.id) # {}
      /\ \A r \in AdaptersOf(posted[i].by, posted[i].msg.id) :
           /\ responses[r].finished
           /\ responses[r].responseSent
           /\ r \notin servers[posted[i].by].pendingResponses
      /\ Cardinality(ResponsesSent(posted[i].by, posted[i].msg.id)) = 1

\* A handler that called end() and did not throw is answered by no Error, also
\* when the send inside end() threw.
C29_EndReturnsNormally ==
  \A d \in 1..Len(dispatched) :
    dispatched[d].behaviour = "end" =>
      \A i \in PostedBy(dispatched[d].server) :
        posted[i].msg.id = dispatched[d].id => isResponseMessage(posted[i].msg)

\* C29: when postMessage throws inside the first end() of an adapter, end()
\* returns normally (the handler that called it is not answered by an Error),
\* the adapter is finished and out of its server's in-flight set, and no later
\* end() hands the Response to postMessage again.
C29_SendFailureIsSwallowed ==
  [](C29_FailedSendFinishes /\ C29_EndReturnsNormally)

\* The handler ended the response while postMessage threw, and end() has been
\* called on an adapter again since: one failed send logged, nothing on the
\* channel, nothing in flight.
C29_Witness ==
  /\ lastOp.op = "end"
  /\ Len(dispatched) = 1 /\ dispatched[1].behaviour = "end"
  /\ Len(posted) = 1 /\ ~posted[1].ok /\ isResponseMessage(posted[1].msg)
  /\ toClients = <<>>
  /\ responses[dispatched[1].response].finished
  /\ servers[dispatched[1].server].pendingResponses = {}

\* ---- Correlation Manager, checked under SpecCM (continued)

\* The entries of the pending table that are older than maxAge now.
Expired(maxAge) ==
  {i \in 1..Len(cm.pendingRequests) : now - cm.pendingRequests[i].timestamp > maxAge}

\* What the step put on the nextTick queue.
Scheduled == SubSeq(tickQueue', Len(tickQueue) + 1, Len(tickQueue'))

\* lastOp of a cleanup holds maxAge (reg) and the number returned (ret).
C30_CleanupStep ==
  lastOp'.op = "cleanup" =>
    LET maxAge == lastOp'.reg
        was == cm.pendingRequests
        old == IF cm.disposed THEN {} ELSE Expired(maxAge)
    IN  /\ lastOp'.ret = Cardinality(old)
        /\ calls' = calls
        /\ SubSeq(tickQueue', 1, Len(tickQueue)) = tickQueue
        /\ Len(Scheduled) = Cardinality(old)
        /\ \A i \in old :
             \E k \in 1..Len(Scheduled) :
               Scheduled[k] = Callback(was[i].reg, "reject",
                                       ErrorMsg(was[i].id, "Request expired", 408, ""))
        /\ cm'.pendingRequests = SelectSeq(was, LAMBDA e : \A i \in old : was[i] # e)
        /\ cm'.timers = {t \in cm.timers : \A i \in old : was[i].timeout # t.reg}
        /\ cm'.disposed = cm.disposed

\* C30: cleanupExpiredRequests(maxAge) schedules one reject callback, with the
\* 408 'Request expired' error, for each pending entry older than maxAge and for
\* no other, takes those entries and their timers away, returns their number and
\* leaves every other entry and timer as it was; on a disposed manager it
\* returns 0 and changes nothing.
C30_CleanupRejectsExpired == [][C30_CleanupStep]_vars

\* A sweep has just rejected one of two pending entries: the older one is
\* scheduled for rejection, the younger is still pending with its timer.
C30_Witness ==
  /\ lastOp.op = "cleanup" /\ lastOp.ret = 1
  /\ Len(cm.pendingRequests) = 1
  /\ now - cm.pendingRequests[1].timestamp <= lastOp.reg
  /\ \E t \in cm.timers : t.reg = cm.pendingRequests[1].timeout
  /\ tickQueue # <<>>
  /\ tickQueue[Len(tickQueue)].arg.error = "Request expired"
  /\ tickQueue[Len(tickQueue)].reg # cm.pendingRequests[1].reg

\* ---- Servers and the requests they hand on, checked under SpecRequest

\* What a request adapter emits in all: 'data' if the request has a body, then 'end'.
BodyEvents(req) == (IF req.hasBody THEN <<"data">> ELSE <<>>) \o <<"end">>

C31_SilentUntilRequestEvent ==
  \A d \in (Len(dispatched) + 1)..Len(dispatched') :
    /\ dispatched'[d].request.emitted = <<>>
    /\ dispatched'[d].request.tick

C31_EmitsOnce ==
  \A d \in 1..Len(dispatched) :
    dispatched[d].request.emitted =
      (IF dispatched[d].request.tick THEN <<>> ELSE BodyEvents(dispatched[d].request))

\* C31: the request adapter emits nothing in its constructor and nothing before
\* its server has emitted 'request' for it; afterwards it emits 'data' once if
\* and only if the request has a body, and then 'end' once, and nothing else.
C31_BodyAfterRequestEvent ==
  [](C31_EmitsOnce) /\ [][C31_SilentUntilRequestEvent]_vars

\* A request with a body and one without have both been dispatched and both
\* body callbacks have run.
C31_Witness ==
  /\ lastOp.op = "tick"
  /\ \E d, e \in 1..Len(dispatched) :
       /\ dispatched[d].request.hasBody
       /\ dispatched[d].request.emitted = <<"data", "end">>
       /\ ~dispatched[e].request.hasBody
       /\ dispatched[e].request.emitted = <<"end">>

\* ---- A client and the answers of its peer, checked under SpecAnswer

\* Statuses on both sides of the two ends of the 2xx range.
AnswerStatuses == {199, 200, 299, 300, 404}

\* The instanceId of an answer: absent, or the first client's own.
AnswerTags == {"", GeneratedClientId(1)}

PeerResponses(id) ==
  {ResponseMsg(id, status, {}, <<>>, tag) : status \in AnswerStatuses, tag \in AnswerTags}

\* The extension side answers the oldest request with a Response; it may
\* answer the same request again later (again = TRUE leaves it on the channel).
PeerAnswer(message, again) ==
  /\ toServers # <<>>
  /\ toClients = <<>>
  /\ message \in PeerResponses(Head(toServers).id)
  /\ toServers' = IF again THEN toServers ELSE Tail(toServers)
  /\ toClients' = Append(toClients, message)
  /\ UNCHANGED <<clockVars, nextReg, tickQueue, lastOp, cmVars, responses, posted, servers,
                 registry, subscribers, dispatched, clientVars>>

\* Clients fetching and being disposed at any moment while the peer answers
\* every request with a Response of some status.
AnswerNext ==
  \/ \E c \in ClientIds, instanceId \in ClientInstanceOptions : ClientNew(c, instanceId)
  \/ \E c \in ClientIds, timeout \in FetchTimeouts : ClientFetch(c, timeout, TRUE)
  \/ \E id \in {toServers[i].id : i \in 1..Len(toServers)} :
       \E message \in PeerResponses(id), again \in BOOLEAN : PeerAnswer(message, again)
  \/ ClientDeliver
  \/ ClientRunTick
  \/ \E c \in ClientIds : ClientDispose(c)

SpecAnswer == Init /\ [][AnswerNext]_vars

\* The fetch whose callback is at the head of the nextTick queue.
Answered == fetches[Head(tickQueue).reg]

\* A Response has been matched to a pending fetch and the fetch's resolve
\* callback is running now.
ResponseArrives ==
  /\ Running
  /\ Head(tickQueue).kind = "resolve"
  /\ Answered.state = "pending"

C32_SettlesByStatus ==
  ResponseArrives =>
    LET status == Head(tickQueue).arg.status
        after == fetches'[Head(tickQueue).reg]
    IN  /\ after.status = status
        /\ after.state = (IF status >= 200 /\ status <= 299 THEN "resolved" ELSE "rejected")

C32_SettlesOnce ==
  \A f \in 1..Len(fetches) : fetches[f].state # "pending" => fetches'[f] = fetches[f]

\* C32: a Response that matches a pending fetch of a client that was not
\* disposed when it arrived resolves the fetch if its status is in 200..299 and
\* rejects it with an error carrying that status otherwise; a settled fetch
\* never settles again.
C32_ResponseSettlesByStatus == [][C32_SettlesByStatus /\ C32_SettlesOnce]_vars

\* ---- The response adapter's life, checked under SpecRes

C33_FlagsStayUp ==
  /\ responses[1].headersSent => responses'[1].headersSent
  /\ responses[1].finished => responses'[1].finished
  /\ responses[1].disposed => responses'[1].disposed

C33_SentByFinishingEnd ==
  posted' # posted =>
    /\ lastOp'.op = "end"
    /\ ~responses[1].finished
    /\ responses'[1].finished
    /\ Len(posted') = Len(posted) + 1

C33_SentIsFinished ==
  posted # <<>> => responses[1].finished /\ responses[1].headersSent

\* C33: headersSent, finished and the disposed flag of a response adapter never
\* go from true back to false; webview.postMessage is called with the adapter's
\* envelope only by the end() call that takes the adapter to Finished; and once
\* it has been called the adapter is finished with its headers sent.
C33_StateMovesForward ==
  [](C33_SentIsFinished) /\ [][C33_FlagsStayUp /\ C33_SentByFinishingEnd]_vars

\* end() on an adapter nothing was written to has sent the envelope, and the
\* adapter has been disposed since.
C33_Witness ==
  /\ Len(posted) = 1
  /\ posted[1].ok
  /\ responses[1].body = <<>>
  /\ responses[1].finished
  /\ responses[1].headersSent
  /\ responses[1].disposed

\* ---- The flush of the Correlation Manager, checked under SpecCM

\* The callbacks the step has put on the nextTick queue.
Flushed == SubSeq(tickQueue', Len(tickQueue) + 1, Len(tickQueue'))

C34_FlushStep ==
  (lastOp'.op = "clearAll" /\ ~cm.disposed /\ Len(cm.pendingRequests) >= 2)
    => \A e \in {cm.pendingRequests[i] : i \in 1..Len(cm.pendingRequests)} :
         \E k \in 1..Len(Flushed) :
           /\ Flushed[k].reg = e.reg
           /\ Flushed[k].kind = "reject"
           /\ Flushed[k].arg.id = e.id

\* C34: when clearAllRequests rejects two or more pending requests, the error
\* each reject callback receives has the correlation id of the callback's own
\* request in its id field.
C34_FlushErrorHasOwnId == [][C34_FlushStep]_vars

\* ---- The servers' public flag, checked under SpecLife

\* C36: the public listening flag of a server is false when the server is
\* constructed and from then on true exactly while the server is Listening.
C36_ListeningFlagTellsState ==
  \A s \in ServerIds :
    servers[s].constructed => (servers[s].listening <=> ServerState(s) = "Listening")

\* ---- Three servers on one webview, checked under SpecShared

SharedServerIds == {1, 2, 3}

SharedInit ==
  /\ now = 0
  /\ advances = 0
  /\ nextReg = 1
  /\ tickQueue = <<>>
  /\ lastOp = Op("new", "", 0, TRUE)
  /\ NoManager
  /\ NoAdapters
  /\ toServers = <<>>
  /\ servers = [s \in SharedServerIds |-> NoServer]
  /\ registry = 0
  /\ subscribers = <<>>
  /\ dispatched = <<>>
  /\ NoWebview

\* Three servers constructed on the same webview, listening and closing at any
\* moment while the webview posts requests.
SharedNext ==
  \/ \E s \in SharedServerIds : OpenServer(s)
  \/ \E s \in SharedServerIds : ListenServer(s)
  \/ \E s \in SharedServerIds : CloseServer(s)
  \/ \E message \in WebviewMessages(FetchId(nextReg)) : WebviewPost(message)
  \/ \E behaviours \in [SharedServerIds -> {"defer", "end"}] :
       DeliverToServers(behaviours, TRUE)

SpecShared == SharedInit /\ [][SharedNext]_vars

\* C35: every request envelope is dispatched ('request' emitted for it) by at
\* most one of the servers that share a webview, also after the server
\* constructed last has been closed while older servers are still listening.
C35_DispatchedByOneServer ==
  \A i, j \in 1..Len(dispatched) :
    dispatched[i].id = dispatched[j].id => i = j

\* ---- Servers with a 'close' listener, checked under SpecClose

\* server.on('close', listener): one listener at most is registered.
OnClose(s) ==
  /\ servers[s].constructed
  /\ servers[s].closeListeners = 0
  /\ servers' = [servers EXCEPT ![s].closeListeners = 1]
  /\ lastOp' = Op("on", ServerState(s), s, FALSE)
  /\ UNCHANGED <<resVars, toServers, registry, subscribers, dispatched>>
  /\ ServerFrame

CloseNext ==
  \/ LifeNext
  \/ \E s \in ServerIds : OnClose(s)

SpecClose == Init /\ [][CloseNext]_vars

C37_CloseStep ==
  \A s \in ServerIds :
    /\ (Closing(s) /\ servers[s].closeListeners > 0)
         => servers'[s].closeEvents = servers[s].closeEvents + 1
    /\ ~Closing(s) => servers'[s].closeEvents = servers[s].closeEvents
    /\ (lastOp'.op = "close" /\ lastOp'.reg = s /\ lastOp'.ret)
         => servers'[s].callbacks = servers[s].callbacks + 1

\* C37: a listener registered on 'close' before close() is notified exactly
\* once, in the close() call that takes the server from Listening to Closed, and
\* never otherwise; every close(callback) call hands its callback to
\* process.nextTick.
C37_CloseNotifiesListener == [][C37_CloseStep]_vars

\* ---- The primary client of a webview, checked under SpecClient

Alive == {c \in ClientIds : clients[c].constructed /\ ~clients[c].disposed}

C38_PrimaryIsAlive == Alive # {} => primaryClient \in Alive

\* What _handleMessage hands an envelope to on the Correlation Manager m.
Forwarded(m, message) ==
  IF isResponseMessage(message) THEN resolveRequest(m, message.id, message)
  ELSE rejectRequest(m, message.id, message)

\* The host delivers an envelope that carries no instanceId.
UntaggedArrives ==
  /\ toClients # <<>>
  /\ toClients' = Tail(toClients)
  /\ Head(toClients).instanceId = ""

C38_UntaggedStep ==
  UntaggedArrives =>
    /\ \A c \in ClientIds \ {primaryClient} : clients'[c] = clients[c]
    /\ \A c \in Alive \cap {primaryClient} :
         /\ clients'[c].cm = Forwarded(clients[c].cm, Head(toClients)).cm
         /\ tickQueue' = tickQueue \o Forwarded(clients[c].cm, Head(toClients)).ticks
    /\ Alive = {} => tickQueue' = tickQueue

\* C38: while a client that is not disposed exists, the primary client is one
\* of them, whatever clients are constructed and disposed; and an envelope
\* without instanceId is handed to the Correlation Manager of the primary client
\* alone, every other client leaving it alone.
C38_PrimaryHandlesUntagged ==
  [](C38_PrimaryIsAlive) /\ [][C38_UntaggedStep]_vars

\* The first client was disposed, the second took over as primary and a fetch
\* of it has been resolved by an answer that could only be an untagged one.
C38_Witness ==
  /\ clients[1].disposed
  /\ primaryClient = 2
  /\ clients[2].instanceId = GeneratedClientId(2)
  /\ \E f \in 1..Len(fetches) : fetches[f].client = 2 /\ fetches[f].state = "resolved"

\* ---- The timers of the Correlation Manager, checked under SpecCM

\* C39: every armed timeout timer belongs to the current pending entry of its
\* id, the entry whose addPendingRequest call armed it: no timer outlives its
\* entry, also when an id that is still pending is registered again.
C39_TimerBelongsToItsEntry ==
  \A t \in cm.timers :
    \E i \in 1..Len(cm.pendingRequests) :
      /\ cm.pendingRequests[i].id = t.id
      /\ cm.pendingRequests[i].timeout = t.reg

====
